---- MODULE Spec2Model ----
(***************************************************************************)
(* DayLaunch plan-generation pipeline: the pool availability resolver,     *)
(* the POST /generate route, generatePlan and its commit transaction.      *)
(*                                                                         *)
(* Time is counted in whole minutes since the epoch (UTC).  A JavaScript   *)
(* Date is such an instant; its local calendar fields are read through the *)
(* host's timezone offset tz (minutes east of UTC).  An optional value     *)
(* (null / undefined in the source) is the empty tuple, a present value v  *)
(* is the tuple <<v>>.                                                     *)
(***************************************************************************)
EXTENDS Integers, Sequences, FiniteSets, TLC

VARIABLES
  tz,          \* the host's timezone offset
  pool,        \* the PoolItem table, in row order
  categories,  \* the Category table, in row order
  plans,       \* the DailyPlan table
  tasks,       \* the Task (schedule entry) table
  req,         \* the POST /generate requests in flight, by connection
  runs,        \* number of generate requests received so far
  availResp,   \* the last response of GET /pool/available/:date
  feedback,    \* the DailyFeedback table
  journal,     \* the JournalEntry table
  capacity,    \* the capacity part of the last planning context gathered
  poolResp     \* the last PoolService.create or update call and its outcome

vars == <<tz, pool, categories, plans, tasks, req, runs, availResp,
          feedback, journal, capacity, poolResp>>

\* The variables no step of a generate request or of the resolver changes.
others == <<journal, capacity, poolResp>>

-----------------------------------------------------------------------------
(* Optional values *)

None == <<>>
Some(v) == <<v>>
IsNull(x) == x = <<>>
Val(x) == x[1]

-----------------------------------------------------------------------------
(* Bounds of the model *)

\* Calendar days requests and events are drawn from: 1..MaxDay.
MaxDay == 2

\* Number of rows in the PoolItem table.
NumPoolItems == 2

Days == 1..MaxDay

\* Host timezone offsets (minutes east of UTC) the server may run under.
TZOffsets == {0 - 300, 0, 120}

-----------------------------------------------------------------------------
(* JavaScript Date arithmetic *)

\* One day, the divisor (1000 * 60 * 60 * 24), in minutes.
MinutesPerDay == 1440

MinutesPerHour == 60

\* The instant h:m (UTC) of calendar day d.
At(d, h, m) == d * MinutesPerDay + h * MinutesPerHour + m

\* Date.prototype.toISOString().split('T')[0]: the UTC calendar day.
toISODateStr(t) == t \div MinutesPerDay

\* new Date('YYYY-MM-DD'): a date-only string is UTC midnight of that day.
newDateFromDateStr(day) == day * MinutesPerDay

\* The local calendar day of an instant under offset z.
localDay(t, z) == (t + z) \div MinutesPerDay

\* Date.prototype.setHours(h, m, 0, 0): keeps the LOCAL calendar day of t
\* and sets the local time of day.
setHours(t, h, m, z) ==
  localDay(t, z) * MinutesPerDay - z + h * MinutesPerHour + m

\* setHours(23, 59, 59, 999): the last instant of t's local day.
setHoursEndOfDay(t, z) == setHours(t, 23, 59, z)

\* A request's date string: absent, unparsable, 'YYYY-MM-DD', or a
\* date-time without offset ('YYYY-MM-DDTHH:00', read as local time).
DateOnly(d) == [kind |-> "date", day |-> d, hour |-> 0]
DateTime(d, h) == [kind |-> "datetime", day |-> d, hour |-> h]
MissingDateStr == [kind |-> "missing", day |-> 0, hour |-> 0]
InvalidDateStr == [kind |-> "invalid", day |-> 0, hour |-> 0]

newDateLenient(s, z) ==
  IF s.kind = "datetime" THEN Some(At(s.day, s.hour, 0) - z)
  ELSE Some(newDateFromDateStr(s.day))

\* new Date(dateStr); None stands for an Invalid Date (getTime() is NaN).
newDate(s, z) ==
  CASE s.kind = "date" -> Some(newDateFromDateStr(s.day))
    [] s.kind = "datetime" -> Some(At(s.day, s.hour, 0) - z)
    [] OTHER -> None

-----------------------------------------------------------------------------
(* Pool items *)

PoolIds == 1..NumPoolItems

\* The row with primary key i.
withId(row, i) == [id |-> i] @@ row

\* No response sent yet.
NoResponse == [status |-> 0, date |-> None, body |-> None]

\* Global cooldown defaults (MVP).
GLOBAL_COOLDOWN_DAYS == [task |-> 1, aspiration |-> 3, event |-> 0]

\* The rows of the PoolItem table in the order findMany returns them.
poolRows(p) == [i \in 1..Len(p) |-> p[i]]

\* item.cooldownDays ?? GLOBAL_COOLDOWN_DAYS[item.type]
effectiveCooldown(item) ==
  IF IsNull(item.cooldownDays) THEN GLOBAL_COOLDOWN_DAYS[item.type]
  ELSE Val(item.cooldownDays)

\* Math.floor((forDate.getTime() - lastUsedAt.getTime()) / (1000*60*60*24))
daysSinceUsed(forDate, item) == (forDate - Val(item.lastUsedAt)) \div MinutesPerDay

cooldownPassedLate(forDate, item) ==
  \/ IsNull(item.lastUsedAt)
  \/ daysSinceUsed(forDate, item) + 1 >= effectiveCooldown(item)

\* The cooldown filter of getAvailableForDate.
cooldownPassed(forDate, item) ==
  \/ IsNull(item.lastUsedAt)
  \/ daysSinceUsed(forDate, item) >= effectiveCooldown(item)

\* startOfDay of getAvailableForDate: new Date(dateStr) then setHours(0,0,0,0).
availStartOfDay(forDate, z) ==
  setHours(newDateFromDateStr(toISODateStr(forDate)), 0, 0, z)

availEndOfDay(forDate, z) == setHoursEndOfDay(availStartOfDay(forDate, z), z)

\* The events filter of getAvailableForDate.
isEventForDate(forDate, item, z) ==
  /\ item.type = "event"
  /\ ~IsNull(item.scheduledAt)
  /\ Val(item.scheduledAt) >= availStartOfDay(forDate, z)
  /\ Val(item.scheduledAt) <= availEndOfDay(forDate, z)

\* PoolService.getAvailableForDate over the table p.
getAvailableForDate(p, forDate, z) ==
  LET allActive == SelectSeq(poolRows(p), LAMBDA it : it.status = "active")
      events == SelectSeq(allActive, LAMBDA it : isEventForDate(forDate, it, z))
      tasksAndAspirations ==
        SelectSeq(allActive, LAMBDA it : it.type \in {"task", "aspiration"})
      available ==
        SelectSeq(tasksAndAspirations, LAMBDA it : cooldownPassed(forDate, it))
  IN [tasks |-> SelectSeq(available, LAMBDA it : it.type = "task"),
      aspirations |-> SelectSeq(available, LAMBDA it : it.type = "aspiration"),
      events |-> events]

-----------------------------------------------------------------------------
(* Strings: a title is a sequence of characters *)

lowerChar(c) == CASE c = "W" -> "w" [] c = "K" -> "k" [] c = "R" -> "r" [] OTHER -> c

\* String.prototype.toLowerCase
toLowerCase(s) == [i \in 1..Len(s) |-> lowerChar(s[i])]

RECURSIVE trimStart(_)
trimStart(s) == IF s # <<>> /\ Head(s) = " " THEN trimStart(Tail(s)) ELSE s

RECURSIVE trimEnd(_)
trimEnd(s) ==
  IF s # <<>> /\ s[Len(s)] = " " THEN trimEnd(SubSeq(s, 1, Len(s) - 1)) ELSE s

\* String.prototype.trim
trim(s) == trimEnd(trimStart(s))

SeqRange(s) == {s[i] : i \in 1..Len(s)}

Max(S) == CHOOSE x \in S : \A y \in S : y <= x
Min(S) == CHOOSE x \in S : \A y \in S : x <= y

-----------------------------------------------------------------------------
(* Categories *)

\* The defaults of initializeDefaultCategories, in its order.
DefaultCategories ==
  << [name |-> "Exercise", priority |-> 1], [name |-> "Diet", priority |-> 2],
     [name |-> "Work", priority |-> 3], [name |-> "Social", priority |-> 4],
     [name |-> "Debt", priority |-> 5], [name |-> "Learning", priority |-> 6],
     [name |-> "Personal", priority |-> 7] >>

\* Alphabetical rank of the category names in use (orderBy name asc).
nameRank ==
  [Debt |-> 1, Diet |-> 2, Exercise |-> 3, Learning |-> 4, Personal |-> 5,
   Social |-> 6, Work |-> 7]

\* CategoryService.initializeDefaultCategories: create each default whose
\* name is not in the table yet (enabled, with a fresh id).
RECURSIVE addDefaults(_, _)
addDefaults(cats, k) ==
  IF k > Len(DefaultCategories) THEN cats
  ELSE LET d == DefaultCategories[k] IN
       IF \E i \in 1..Len(cats) : cats[i].name = d.name
       THEN addDefaults(cats, k + 1)
       ELSE addDefaults(
              Append(cats, [id |-> Len(cats) + 1, name |-> d.name,
                            priority |-> d.priority, enabled |-> TRUE]),
              k + 1)

initializeDefaultCategories(cats) == addDefaults(cats, 1)

\* orderBy [{ priority: 'desc' }, { name: 'asc' }]
catBefore(a, b) ==
  \/ a.priority > b.priority
  \/ a.priority = b.priority /\ nameRank[a.name] < nameRank[b.name]

RECURSIVE sortCategories(_)
sortCategories(S) ==
  IF S = {} THEN <<>>
  ELSE LET first == CHOOSE a \in S : \A b \in S \ {a} : catBefore(a, b)
       IN <<first>> \o sortCategories(S \ {first})

\* CategoryService.findAll(enabledOnly)
findAll(cats, enabledOnly) ==
  sortCategories({c \in SeqRange(cats) : enabledOnly => c.enabled})

\* categoryByName.get(name): the id of the enabled category of that name.
categoryByName(ctxCategories, name) ==
  LET hits == {i \in 1..Len(ctxCategories) : ctxCategories[i].name = name}
  IN IF hits = {} THEN None ELSE Some(ctxCategories[Max(hits)].id)

-----------------------------------------------------------------------------
(* The planning context *)

\* gatherContext: the enabled categories and the pool items available for
\* the date, read from the tables.  The capacity part of the context is
\* capacityFrom, applied by GatherCapacity.
gatherContext(forDate, cats, p, z) ==
  [categories |->
     [i \in 1..Len(findAll(cats, TRUE)) |->
        [id |-> findAll(cats, TRUE)[i].id, name |-> findAll(cats, TRUE)[i].name]],
   poolItems |-> getAvailableForDate(p, forDate, z)]

-----------------------------------------------------------------------------
(* The model's answer *)

\* Length of the raw-response excerpt an error message carries.
ExcerptLen == 500

Truncate(n, limit) == IF n < limit THEN n ELSE limit

sliceLong(raw, limit) == raw

\* String.prototype.slice(0, limit): the prefix of at most limit characters.
slice(raw, limit) == [raw EXCEPT !.len = Truncate(raw.len, limit)]

\* JSON.parse of the candidate text: None when it throws.
jsonParse(payload) == IF payload.kind = "garbage" THEN None ELSE Some(payload)

\* parseLLMResponse: the text inside the first fenced block, else the whole
\* trimmed text, handed to JSON.parse; null when that throws.
parseLLMResponse(raw) ==
  IF raw.fenced THEN jsonParse(raw.payload)
  ELSE IF raw.prose THEN None
  ELSE jsonParse(raw.payload)

isValidPlanNoArrayCheck(parsed) ==
  /\ ~IsNull(parsed)
  /\ Val(parsed).kind = "object"

\* The validation with the additional test parsed.tasks.length === 0.
isValidPlanNonEmpty(parsed) ==
  /\ ~IsNull(parsed)
  /\ Val(parsed).kind = "object"
  /\ Val(parsed).tasks.kind = "array"
  /\ Val(parsed).tasks.items # <<>>

\* The negation of (!parsed || !Array.isArray(parsed.tasks)).
isValidPlan(parsed) ==
  /\ ~IsNull(parsed)
  /\ Val(parsed).kind = "object"
  /\ Val(parsed).tasks.kind = "array"

\* timeToDate(dateStr, timeStr); None stands for an Invalid Date.
timeToDate(dateStr, timeStr, z) ==
  LET d == newDateFromDateStr(dateStr) IN
  CASE timeStr.kind = "morning" -> Some(setHours(d, 9, 0, z))
    [] timeStr.kind = "afternoon" -> Some(setHours(d, 14, 0, z))
    [] timeStr.kind = "evening" -> Some(setHours(d, 18, 0, z))
    [] timeStr.kind = "hhmm" -> Some(setHours(d, timeStr.h, timeStr.m, z))
    [] OTHER -> None

-----------------------------------------------------------------------------
(* Matching a proposed entry to a pool item *)

poolItemsByTitleFirst(items, key) ==
  LET hits == {i \in 1..Len(items) : trim(toLowerCase(items[i].title)) = key}
  IN IF hits = {} THEN None ELSE Some(items[Min(hits)])

\* poolItemsByTitle.get(key): the map is filled in list order, so the last
\* item of a key is the one kept.
poolItemsByTitle(items, key) ==
  LET hits == {i \in 1..Len(items) : trim(toLowerCase(items[i].title)) = key}
  IN IF hits = {} THEN None ELSE Some(items[Max(hits)])

findByIdInTable(items, id) ==
  IF id \in DOMAIN pool THEN Some(pool[id]) ELSE None

\* [...tasks, ...aspirations].find((item) => item.id === id)
findById(items, id) ==
  LET hits == {i \in 1..Len(items) : items[i].id = id}
  IN IF hits = {} THEN None ELSE Some(items[Min(hits)])

matchPoolItemIgnoringFlag(t, ctx) ==
  LET items == ctx.poolItems.tasks \o ctx.poolItems.aspirations
      byTitle == poolItemsByTitle(items, trim(toLowerCase(Val(t.title))))
  IN IF ~IsNull(byTitle) THEN byTitle
     ELSE IF ~IsNull(t.pool_item_id) THEN findById(items, Val(t.pool_item_id))
     ELSE None

matchPoolItemByIdFirst(t, ctx) ==
  LET items == ctx.poolItems.tasks \o ctx.poolItems.aspirations
      byTitle == poolItemsByTitle(items, trim(toLowerCase(Val(t.title))))
      byId == IF IsNull(t.pool_item_id) THEN None
              ELSE findById(items, Val(t.pool_item_id))
  IN IF t.is_i_wonder THEN None
     ELSE IF ~IsNull(byId) THEN byId
     ELSE byTitle

\* matchedPoolItem of generatePlan for entry t (whose title is a string).
matchPoolItem(t, ctx) ==
  LET items == ctx.poolItems.tasks \o ctx.poolItems.aspirations
      byTitle == poolItemsByTitle(items, trim(toLowerCase(Val(t.title))))
  IN IF t.is_i_wonder THEN None
     ELSE IF ~IsNull(byTitle) THEN byTitle
     ELSE IF ~IsNull(t.pool_item_id) THEN findById(items, Val(t.pool_item_id))
     ELSE None

-----------------------------------------------------------------------------
(* POST /api/plans/generate and generatePlan *)

Reqs == {1, 2}

NoResult ==
  [status |-> 0, error |-> "", excerpt |-> None, planId |-> None, taskCount |-> 0]

\* A connection with no request on it.
IdleReq ==
  [pc |-> "idle", run |-> 0, forDate |-> 0, replace |-> FALSE, existing |-> None,
   ctx |-> None, eventsToPlace |-> <<>>, response |-> None, parsed |-> <<>>,
   summary |-> None, ti |-> 1, ei |-> 1, txPlan |-> None, txTasks |-> <<>>,
   poolItemIdsToMark |-> <<>>, txMarked |-> FALSE,
   wrote |-> [plan |-> FALSE, tasks |-> 0, marks |-> 0], result |-> NoResult]

\* A response of the route that ends the request without a plan; wrote
\* keeps what the request's transaction had written when it ended.
respond(q, status, error) ==
  [IdleReq EXCEPT
     !.pc = "done", !.run = q.run, !.forDate = q.forDate, !.replace = q.replace,
     !.existing = q.existing,
     !.wrote = [plan |-> ~IsNull(q.txPlan), tasks |-> Len(q.txTasks),
                marks |-> Len(q.poolItemIdsToMark)],
     !.result = [NoResult EXCEPT !.status = status, !.error = error]]

\* DailyPlanService.findByDate: the first plan dated within the local day.
findByDate(ps, date, z) ==
  LET normalizedDate == setHours(date, 0, 0, z)
      endOfDay == setHoursEndOfDay(normalizedDate, z)
      hits == {p \in ps : p.date >= normalizedDate /\ p.date <= endOfDay}
  IN IF hits = {} THEN None
     ELSE Some(CHOOSE p \in hits : \A o \in hits : p.id <= o.id)

existingIgnored(ps, date, z) == None

\* The route's lookup of a plan for the normalized date.
existingPlan(ps, date, z) == findByDate(ps, date, z)

\* router.post('/generate') up to the existence check: validate the date,
\* normalize it to the start of the local day, look for a plan of that day.
GenerateCheck(r, body) ==
  /\ req[r].pc = "idle"
  /\ runs' = runs + 1
  /\ LET date == newDate(body.date, tz)
         forDate == setHours(Val(date), 0, 0, tz)
         existing == existingPlan(plans, forDate, tz)
     IN req' = [req EXCEPT ![r] =
          IF body.date.kind = "missing"
            THEN respond([IdleReq EXCEPT !.run = runs + 1], 400, "date is required")
          ELSE IF IsNull(date)
            THEN respond([IdleReq EXCEPT !.run = runs + 1], 400, "Invalid date")
          ELSE IF ~IsNull(existing) /\ ~body.replace
            THEN [respond([IdleReq EXCEPT !.forDate = forDate, !.run = runs + 1],
                          409,
                          "A plan already exists for this date")
                    EXCEPT !.result.planId = Some(Val(existing).id)]
          ELSE [IdleReq EXCEPT
                  !.pc = IF IsNull(existing) THEN "init" ELSE "delete",
                  !.run = runs + 1, !.forDate = forDate,
                  !.replace = body.replace,
                  !.existing = IF IsNull(existing) THEN None
                               ELSE Some(Val(existing).id)]]
  /\ UNCHANGED <<tz, pool, categories, plans, tasks, availResp, feedback, others>>

deleteNone(rows, id) == rows

\* deleteMany({ where: { dailyPlanId: id } }) on the Task or DailyFeedback table.
deleteManyOfPlan(rows, id) == {x \in rows : x.dailyPlanId # id}

DeleteExistingDeferred(r) ==
  /\ req[r].pc = "delete"
  /\ req' = [req EXCEPT ![r].pc = "init"]
  /\ UNCHANGED <<tz, pool, categories, plans, tasks, runs, availResp, feedback, others>>

\* replace: delete the existing plan's tasks and feedback, then the plan
\* (a failure of the feedback delete is swallowed); deleting a plan
\* that is no longer there throws and ends the request with 500.
DeleteExisting(r) ==
  /\ req[r].pc = "delete"
  /\ LET id == Val(req[r].existing)
         there == \E p \in plans : p.id = id
     IN /\ tasks' = deleteManyOfPlan(tasks, id)
        /\ feedback' = deleteManyOfPlan(feedback, id)
        /\ plans' = {p \in plans : p.id # id}
        /\ req' = [req EXCEPT ![r] =
             IF there THEN [@ EXCEPT !.pc = "init"]
             ELSE respond(@, 500, "Record to delete does not exist")]
  /\ UNCHANGED <<tz, pool, categories, runs, availResp, others>>

\* await categoryService.initializeDefaultCategories()
InitCategories(r) ==
  /\ req[r].pc = "init"
  /\ categories' = initializeDefaultCategories(categories)
  /\ req' = [req EXCEPT ![r].pc = "gather"]
  /\ UNCHANGED <<tz, pool, plans, tasks, runs, availResp, feedback, others>>

\* generatePlan: gatherContext, then the start of the transaction callback,
\* which lists the events to place (those with a scheduledAt).
GatherContext(r) ==
  /\ req[r].pc = "gather"
  /\ LET ctx == gatherContext(req[r].forDate, categories, pool, tz)
     IN req' = [req EXCEPT ![r] =
          [@ EXCEPT !.pc = "llm", !.ctx = Some(ctx),
                    !.eventsToPlace =
                      SelectSeq(ctx.poolItems.events,
                                LAMBDA ev : ~IsNull(ev.scheduledAt))]]
  /\ UNCHANGED <<tz, pool, categories, plans, tasks, runs, availResp, feedback, others>>

\* [capacity_notes, mental_state_notes].filter(Boolean).join(' ') || undefined
mentalStateSummary(parsed) ==
  LET notes == SelectSeq(<<parsed.capacity_notes, parsed.mental_state_notes>>,
                         LAMBDA n : ~IsNull(n))
  IN IF notes = <<>> THEN None ELSE Some([i \in 1..Len(notes) |-> Val(notes[i])])

\* The model call returns raw: parse and validate it; an invalid answer
\* throws inside the transaction, which rolls back, and the route answers 500
\* with the first ExcerptLen characters of the raw text.
LLMRespond(r, raw) ==
  /\ req[r].pc = "llm"
  /\ LET parsed == parseLLMResponse(raw)
     IN req' = [req EXCEPT ![r] =
          IF ~isValidPlan(parsed)
            THEN [respond(@, 500, "LLM did not return a valid plan with tasks")
                    EXCEPT !.response = Some(raw),
                           !.result.excerpt = Some(slice(raw, ExcerptLen))]
          ELSE [@ EXCEPT !.pc = "plan", !.response = Some(raw),
                         !.parsed = Val(parsed).tasks.items,
                         !.summary = mentalStateSummary(Val(parsed))]]
  /\ UNCHANGED <<tz, pool, categories, plans, tasks, runs, availResp, feedback, others>>

\* The model call fails (Ollama unreachable or answering with an error).
LLMFail(r) ==
  /\ req[r].pc = "llm"
  /\ req' = [req EXCEPT ![r] = respond(@, 500, "Ollama API error")]
  /\ UNCHANGED <<tz, pool, categories, plans, tasks, runs, availResp, feedback, others>>

\* 4. Create plan (inside the transaction: not visible until it commits).
CreatePlan(r) ==
  /\ req[r].pc = "plan"
  /\ LET q == req[r] IN
     req' = [req EXCEPT ![r] =
       [@ EXCEPT !.pc = "tx",
                 !.txPlan = Some([id |-> q.run, date |-> q.forDate,
                                  mentalStateSummary |-> q.summary])]]
  /\ UNCHANGED <<tz, pool, categories, plans, tasks, runs, availResp, feedback, others>>

phaseNeverCommits(q) ==
  IF q.pc # "tx" THEN q.pc
  ELSE IF q.ti <= Len(q.parsed) THEN "task"
  ELSE IF q.ei <= Len(q.eventsToPlace) THEN "event"
  ELSE "mark"

\* Where the transaction callback stands after the plan row is created.
phase(q) ==
  IF q.pc # "tx" THEN q.pc
  ELSE IF q.ti <= Len(q.parsed) THEN "task"
  ELSE IF q.ei <= Len(q.eventsToPlace) THEN "event"
  ELSE IF q.poolItemIdsToMark # <<>> /\ ~q.txMarked THEN "mark"
  ELSE "commit"

\* The Task row made from proposed entry t.
entryRow(q, t, k, categoryId, matched, z) ==
  [id |-> [plan |-> q.run, src |-> "llm", k |-> k],
   dailyPlanId |-> q.run,
   categoryId |-> categoryId,
   poolItemId |-> IF IsNull(matched) THEN None ELSE Some(Val(matched).id),
   title |-> Val(t.title),
   scheduledTime |->
     IF IsNull(t.time) THEN None
     ELSE timeToDate(toISODateStr(q.forDate), Val(t.time), z),
   priority |-> IF IsNull(t.priority) THEN 3 ELSE Val(t.priority),
   status |-> "pending"]

\* An entry the loop cannot turn into a row: a missing title throws (at
\* toLowerCase, or in the create), and the create rejects an Invalid Date.
entryThrows(t, z) ==
  \/ IsNull(t.title)
  \/ ~IsNull(t.time) /\ IsNull(timeToDate(0, Val(t.time), z))

keepsEveryEntry(ctx, t) == TRUE

\* An entry survives when its category name is an enabled category's.
keepsEntry(ctx, t) == ~IsNull(categoryByName(ctx.categories, t.category))

notRolledBack(rows) == rows

\* What stays of the rows a transaction wrote once it is rolled back.
rolledBack(rows) == {}

\* A throw inside the transaction callback: the transaction is rolled back
\* and the route answers 500.
Abort(r) ==
  /\ plans' = plans \cup rolledBack(SeqRange(req[r].txPlan))
  /\ tasks' = tasks \cup rolledBack(SeqRange(req[r].txTasks))
  /\ req' = [req EXCEPT ![r] = respond(@, 500, "Plan generation failed")]
  /\ UNCHANGED <<tz, pool, categories, runs, availResp, feedback, others>>

\* 5. One turn of the loop over parsed.tasks.
CreateTask(r) ==
  /\ phase(req[r]) = "task"
  /\ LET q == req[r]
         t == q.parsed[q.ti]
         ctx == Val(q.ctx)
         categoryId == categoryByName(ctx.categories, t.category)
         matched == matchPoolItem(t, ctx)
     IN IF keepsEntry(ctx, t) /\ entryThrows(t, tz) THEN Abort(r)
        ELSE /\ req' = [req EXCEPT ![r] =
                  IF ~keepsEntry(ctx, t) THEN [@ EXCEPT !.ti = @ + 1]
                  ELSE [@ EXCEPT
                          !.ti = @ + 1,
                          !.txTasks = Append(@, entryRow(q, t, q.ti,
                                               IF IsNull(categoryId) THEN 0
                                               ELSE Val(categoryId), matched, tz)),
                          !.poolItemIdsToMark =
                            IF IsNull(matched) THEN @
                            ELSE Append(@, Val(matched).id)]]
             /\ UNCHANGED <<tz, pool, categories, plans, tasks, runs, availResp, feedback, others>>

\* poolItem.categoryId || ctx.categories[0]?.id
eventCategoryId(ev, ctx) ==
  IF ~IsNull(ev.categoryId) THEN ev.categoryId
  ELSE IF Len(ctx.categories) > 0 THEN Some(ctx.categories[1].id)
  ELSE None

\* The Task row made from event ev.
eventRow(q, ev, k, categoryId) ==
  [id |-> [plan |-> q.run, src |-> "event", k |-> k],
   dailyPlanId |-> q.run,
   categoryId |-> categoryId,
   poolItemId |-> Some(ev.id),
   title |-> ev.title,
   scheduledTime |-> ev.scheduledAt,
   priority |-> 1,
   status |-> "pending"]

\* 6. One turn of the loop over eventsToPlace.
PlaceEvent(r) ==
  /\ phase(req[r]) = "event"
  /\ LET q == req[r]
         ev == q.eventsToPlace[q.ei]
         categoryId == eventCategoryId(ev, Val(q.ctx))
     IN req' = [req EXCEPT ![r] =
          IF IsNull(categoryId) THEN [@ EXCEPT !.ei = @ + 1]
          ELSE [@ EXCEPT
                  !.ei = @ + 1,
                  !.txTasks = Append(@, eventRow(q, ev, q.ei, Val(categoryId))),
                  !.poolItemIdsToMark = Append(@, ev.id)]]
  /\ UNCHANGED <<tz, pool, categories, plans, tasks, runs, availResp, feedback, others>>

UpdatePoolUnbuffered(r) ==
  /\ phase(req[r]) = "mark"
  /\ req' = [req EXCEPT ![r].txMarked = TRUE]
  /\ pool' = [i \in DOMAIN pool |->
               IF pool[i].id \in SeqRange(req[r].poolItemIdsToMark)
               THEN [pool[i] EXCEPT !.lastUsedAt = Some(req[r].forDate),
                                    !.useCount = @ + 1]
               ELSE pool[i]]
  /\ UNCHANGED <<tz, categories, plans, tasks, runs, availResp, feedback, others>>

\* 7. tx.poolItem.updateMany, issued when there is an id to mark.
UpdatePool(r) ==
  /\ phase(req[r]) = "mark"
  /\ req' = [req EXCEPT ![r].txMarked = TRUE]
  /\ UNCHANGED <<tz, pool, categories, plans, tasks, runs, availResp, feedback, others>>

markUsedPerEntry(p, ids, usedDate) ==
  [i \in DOMAIN p |->
     IF p[i].id \in SeqRange(ids)
     THEN [p[i] EXCEPT !.lastUsedAt = Some(usedDate),
                       !.useCount = @ + Cardinality({k \in 1..Len(ids) : ids[k] = p[i].id})]
     ELSE p[i]]

markUsedCompleting(p, ids, usedDate) ==
  [i \in DOMAIN p |->
     IF p[i].id \in SeqRange(ids)
     THEN [p[i] EXCEPT !.lastUsedAt = Some(usedDate), !.useCount = @ + 1,
                       !.status = "completed"]
     ELSE p[i]]

\* updateMany({ where: { id: { in: ids } },
\*              data: { lastUsedAt, useCount: { increment: 1 } } })
markUsed(p, ids, usedDate) ==
  [i \in DOMAIN p |->
     IF p[i].id \in SeqRange(ids)
     THEN [p[i] EXCEPT !.lastUsedAt = Some(usedDate), !.useCount = @ + 1]
     ELSE p[i]]

taskCountOfRows(q) == Len(q.txTasks)

upsertPlanByDate(ps, row) == {p \in ps : p.date # row.date} \cup {row}

\* tx.dailyPlan.create: a new row.
insertPlan(ps, row) == ps \cup {row}

\* Whether the DailyPlan table refuses a second row of the same date.
dateIsUnique == FALSE

\* totalTasks: the entries with a known category plus the events to place.
totalTasks(q) ==
  Len(SelectSeq(q.parsed, LAMBDA t : keepsEntry(Val(q.ctx), t)))
    + Len(q.eventsToPlace)

\* The callback returns: the transaction commits plan, tasks and pool updates
\* together, and the route answers 201.
Commit(r) ==
  /\ phase(req[r]) = "commit"
  /\ ~(dateIsUnique /\ \E p \in plans : p.date = req[r].forDate)
  /\ LET q == req[r] IN
     /\ plans' = insertPlan(plans, Val(q.txPlan))
     /\ tasks' = tasks \cup SeqRange(q.txTasks)
     /\ pool' = IF q.txMarked THEN markUsed(pool, q.poolItemIdsToMark, q.forDate)
                ELSE pool
     /\ req' = [req EXCEPT ![r] =
          [@ EXCEPT !.pc = "done",
                    !.result = [NoResult EXCEPT !.status = 201,
                                                !.planId = Some(q.run),
                                                !.taskCount = totalTasks(q)]]]
  /\ UNCHANGED <<tz, categories, runs, availResp, feedback, others>>

\* A write of the transaction fails (a persistence error, a closed or timed
\* out transaction).
TxFail(r) ==
  /\ req[r].pc \in {"plan", "tx"}
  /\ Abort(r)

\* The connection takes a further request.
Reset(r) ==
  /\ req[r].pc = "done"
  /\ req' = [req EXCEPT ![r] = IdleReq]
  /\ UNCHANGED <<tz, pool, categories, plans, tasks, runs, availResp, feedback, others>>

-----------------------------------------------------------------------------
(* One generate request, from any state of the tables *)

\* Longest entry list of a model answer.
MaxEntries == 2

\* A Category table holding the defaults, those of enabledNames enabled.
defaultsTable(enabledNames) ==
  [i \in 1..Len(DefaultCategories) |->
     [id |-> i, name |-> DefaultCategories[i].name,
      priority |-> DefaultCategories[i].priority,
      enabled |-> DefaultCategories[i].name \in enabledNames]]

CategoryTables == {<<>>, defaultsTable({}), defaultsTable({"Exercise", "Work"})}

newItem(type, title, categoryId, scheduledAt) ==
  [type |-> type, title |-> title, categoryId |-> categoryId, status |-> "active",
   lastUsedAt |-> None, useCount |-> 0, cooldownDays |-> None,
   scheduledAt |-> scheduledAt, scheduledEnd |-> None]

\* Pool tables: a task, an aspiration whose title may normalize to the
\* task's, and an event with or without a category.
PoolTables(cats) ==
  {[i \in 1..3 |-> withId(<<first, second, third>>[i], i)] :
     first \in {newItem("task", <<"W", "k">>, None, None)},
     second \in {newItem("aspiration", ti, None, None) :
                   ti \in {<<"w", "k", " ">>, <<"r">>}},
     third \in {newItem("event", <<"e">>, c, Some(At(d, 10, 0))) :
                  c \in {None} \cup {Some(k) : k \in {3} \cap DOMAIN cats},
                  d \in {1, 2}}}

\* A plan of local day 1 generated earlier, holding one originated entry.
earlierPlan(z) ==
  [id |-> 0, date |-> setHours(At(1, 12, 0), 0, 0, z), mentalStateSummary |-> None]

earlierTask(z) ==
  [id |-> [plan |-> 0, src |-> "llm", k |-> 1], dailyPlanId |-> 0, categoryId |-> 1,
   poolItemId |-> None, title |-> <<"z">>, scheduledTime |-> None, priority |-> 3,
   status |-> "pending"]

\* The feedback given on the earlier plan.
earlierFeedback == [id |-> 1, dailyPlanId |-> 0, overallRating |-> 4]

\* No context gathered, no PoolService call made yet.
NoCapacity == [forDate |-> None, capacityScore |-> "", energy |-> "", sleep |-> "",
               recent_completion |-> ""]

\* A request body of the pool routes with none of its fields supplied.
NoInput ==
  [type |-> None, status |-> None, cooldownDays |-> None, scheduledAt |-> None,
   scheduledEnd |-> None]

NoPoolResp == [op |-> "", ok |-> TRUE, input |-> NoInput, id |-> None, calls |-> 0]

InitTables ==
  /\ tz \in TZOffsets
  /\ categories \in CategoryTables
  /\ pool \in PoolTables(categories)
  /\ \E earlier \in IF \E i \in DOMAIN categories : categories[i].enabled
                      THEN BOOLEAN ELSE {FALSE} :
       /\ plans = IF earlier THEN {earlierPlan(tz)} ELSE {}
       /\ tasks = IF earlier THEN {earlierTask(tz)} ELSE {}
       /\ feedback = IF earlier THEN {earlierFeedback} ELSE {}

Init ==
  /\ InitTables
  /\ req = [r \in Reqs |-> IdleReq]
  /\ runs = 0
  /\ availResp = NoResponse
  /\ journal = <<>>
  /\ capacity = NoCapacity
  /\ poolResp = NoPoolResp

\* Request bodies.
Bodies ==
  {[date |-> d, replace |-> rp] :
     d \in {MissingDateStr, InvalidDateStr} \cup {DateOnly(k) : k \in Days},
     rp \in BOOLEAN}

entry(category, title, time, priority, poolItemId, wonder) ==
  [category |-> category, title |-> title, time |-> time, priority |-> priority,
   pool_item_id |-> poolItemId, is_i_wonder |-> wonder]

\* An entry titled like pool item 1, and one of an unknown category.
LaterEntries ==
  { entry("Exercise", Some(<<" ", "W", "K">>), Some([kind |-> "morning", h |-> 0, m |-> 0]),
          None, None, FALSE),
    entry("Chores", Some(<<"r">>), None, None, Some(2), FALSE) }

\* Entries a model answer may hold.
Entries ==
  LaterEntries \cup
  { entry("Exercise", Some(<<"w", "k">>), None, Some(2), Some(1), TRUE),
    entry("Work", Some(<<"R">>), Some([kind |-> "hhmm", h |-> 7, m |-> 30]),
          None, Some(1), FALSE),
    entry("Work", None, None, None, None, FALSE) }

\* The entry lists of at most n entries: any entries in the first two
\* places, the first two kinds of entry after them.
RECURSIVE EntryLists(_)
EntryLists(n) ==
  IF n = 0 THEN {<<>>}
  ELSE EntryLists(n - 1)
         \cup {Append(s, x) : s \in {u \in EntryLists(n - 1) : Len(u) = n - 1},
                              x \in IF n <= 2 THEN Entries ELSE LaterEntries}

object(tasksKind, items) ==
  [kind |-> "object", tasks |-> [kind |-> tasksKind, items |-> items],
   capacity_notes |-> Some("lighter"), mental_state_notes |-> None]

scalar(kind) ==
  [kind |-> kind, tasks |-> [kind |-> "absent", items |-> <<>>],
   capacity_notes |-> None, mental_state_notes |-> None]

\* Raw answers of the model: whether the text holds a fenced block, whether
\* there is prose around the JSON, the JSON text and the length of the whole.
InvalidResponses ==
  { [fenced |-> FALSE, prose |-> FALSE, payload |-> scalar("garbage"), len |-> 40],
    [fenced |-> FALSE, prose |-> TRUE, payload |-> object("array", <<>>), len |-> 900],
    [fenced |-> TRUE, prose |-> TRUE, payload |-> scalar("null"), len |-> 500],
    [fenced |-> TRUE, prose |-> FALSE, payload |-> scalar("number"), len |-> 12],
    [fenced |-> TRUE, prose |-> FALSE, payload |-> object("absent", <<>>), len |-> 501],
    [fenced |-> FALSE, prose |-> FALSE, payload |-> object("string", <<>>), len |-> 2048] }

ValidResponses(n) ==
  {[fenced |-> TRUE, prose |-> TRUE, payload |-> object("array", items), len |-> 700] :
     items \in EntryLists(n)}
  \cup {[fenced |-> FALSE, prose |-> FALSE, payload |-> object("array", <<>>), len |-> 60]}

Responses == InvalidResponses \cup ValidResponses(MaxEntries)

\* The steps of the generate requests on connections R.
GenerateNext(R, bodies, responses) ==
  \E r \in R :
    \/ \E b \in bodies : GenerateCheck(r, b)
    \/ DeleteExisting(r)
    \/ InitCategories(r)
    \/ GatherContext(r)
    \/ \E raw \in responses : LLMRespond(r, raw)
    \/ LLMFail(r)
    \/ CreatePlan(r)
    \/ CreateTask(r)
    \/ PlaceEvent(r)
    \/ UpdatePool(r)
    \/ Commit(r)
    \/ TxFail(r)

Next == GenerateNext({1}, Bodies, Responses)

Spec == Init /\ [][Next]_vars

-----------------------------------------------------------------------------
(* GET /api/pool/available/:date *)

\* router.get('/available/:date')
PoolAvailable(dateStr) ==
  LET date == newDate(dateStr, tz) IN
  /\ availResp' =
       IF IsNull(date) THEN [status |-> 400, date |-> None, body |-> None]
       ELSE [status |-> 200, date |-> date,
             body |-> Some(getAvailableForDate(pool, Val(date), tz))]
  /\ UNCHANGED <<tz, pool, categories, plans, tasks, req, runs, feedback, others>>

-----------------------------------------------------------------------------
(* Specification of the resolver alone: any pool table, any target date *)

LastUsedChoices ==
  {None, Some(At(0, 0, 0)), Some(At(1, 0, 0)), Some(At(1, 19, 0)), Some(At(3, 0, 0))}
CooldownChoices == {None, Some(0), Some(2)}
ScheduledAtChoices ==
  {None, Some(At(1, 6, 0)), Some(At(1, 23, 30)), Some(At(2, 2, 0)), Some(At(2, 22, 0))}
StatusChoices == {"active", "paused", "completed"}

\* Rows a pool table can hold (without their id): only events carry a
\* scheduled time.
PoolItemChoices ==
  {[type |-> ty, title |-> <<"w">>, categoryId |-> None,
    status |-> st, lastUsedAt |-> lu, useCount |-> IF IsNull(lu) THEN 0 ELSE 1,
    cooldownDays |-> cd, scheduledAt |-> None, scheduledEnd |-> None] :
      ty \in {"task", "aspiration"}, st \in StatusChoices,
      lu \in LastUsedChoices, cd \in CooldownChoices}
  \cup
  {[type |-> "event", title |-> <<"w">>, categoryId |-> None,
    status |-> st, lastUsedAt |-> lu, useCount |-> IF IsNull(lu) THEN 0 ELSE 1,
    cooldownDays |-> cd, scheduledAt |-> sa, scheduledEnd |-> None] :
      st \in {"active", "paused"}, lu \in {None, Some(At(1, 0, 0))},
      cd \in {None, Some(2)}, sa \in ScheduledAtChoices}

\* The further rows of the table, from a smaller choice.
OtherItemChoices ==
  {it \in PoolItemChoices :
     \/ it.type = "task" /\ it.status = "active" /\ IsNull(it.lastUsedAt)
          /\ IsNull(it.cooldownDays)
     \/ it.type = "aspiration" /\ it.status = "active"
          /\ it.lastUsedAt = Some(At(0, 0, 0)) /\ IsNull(it.cooldownDays)
     \/ it.type = "aspiration" /\ it.status = "paused"
          /\ it.lastUsedAt = Some(At(1, 0, 0)) /\ IsNull(it.cooldownDays)
     \/ it.type = "event" /\ it.status = "active" /\ IsNull(it.lastUsedAt)
          /\ IsNull(it.cooldownDays) /\ it.scheduledAt = Some(At(2, 2, 0))}

DateStrChoices ==
  {MissingDateStr, InvalidDateStr}
  \cup {DateOnly(d) : d \in Days \cup {MaxDay + 1}}
  \cup {DateTime(d, h) : d \in Days, h \in {0, 1, 23}}

InitResolver ==
  /\ tz \in TZOffsets
  /\ pool \in {[i \in PoolIds |-> withId(IF i = 1 THEN first ELSE rest[i], i)] :
                 first \in PoolItemChoices,
                 rest \in [PoolIds \ {1} -> OtherItemChoices]}
  /\ categories = <<>>
  /\ plans = {}
  /\ tasks = {}
  /\ feedback = {}
  /\ req = [r \in Reqs |-> IdleReq]
  /\ runs = 0
  /\ availResp = NoResponse
  /\ journal = <<>>
  /\ capacity = NoCapacity
  /\ poolResp = NoPoolResp

NextResolver == \E s \in DateStrChoices : PoolAvailable(s)

SpecResolver == InitResolver /\ [][NextResolver]_vars

-----------------------------------------------------------------------------
(* Claims about the resolver *)

availTarget == Val(availResp.date)
availBody == Val(availResp.body)

\* C2: for every target date D and every pool table, getAvailableForDate(D)
\* returns no task or aspiration whose count of whole days from lastUsedAt
\* to D is strictly less than its effective cooldown.
C2_NoItemInCooldown ==
  availResp.status = 200 =>
    \A it \in SeqRange(availBody.tasks) \cup SeqRange(availBody.aspirations) :
      ~IsNull(it.lastUsedAt) =>
        LET cd == IF IsNull(it.cooldownDays)
                    THEN (IF it.type = "task" THEN 1 ELSE 3)
                    ELSE Val(it.cooldownDays)
        IN ~(\E n \in (0 - 8)..8 :
               /\ n * MinutesPerDay <= availTarget - Val(it.lastUsedAt)
               /\ availTarget - Val(it.lastUsedAt) < (n + 1) * MinutesPerDay
               /\ n < cd)

\* A used item is returned exactly at the end of its cooldown while another
\* active item of the table is held back.
C2_Witness ==
  /\ availResp.status = 200
  /\ \E it \in SeqRange(availBody.tasks) \cup SeqRange(availBody.aspirations) :
       /\ ~IsNull(it.lastUsedAt)
       /\ availTarget - Val(it.lastUsedAt) = effectiveCooldown(it) * MinutesPerDay
       /\ effectiveCooldown(it) > 0
  /\ \E i \in DOMAIN pool :
       /\ pool[i].status = "active" /\ pool[i].type \in {"task", "aspiration"}
       /\ pool[i] \notin SeqRange(availBody.tasks) \cup SeqRange(availBody.aspirations)

\* C3: every event getAvailableForDate(D) returns is scheduled inside the
\* local calendar day of D; an event of another calendar date is not returned.
C3_EventsOnTargetDay ==
  availResp.status = 200 =>
    \A ev \in SeqRange(availBody.events) :
      /\ ~IsNull(ev.scheduledAt)
      /\ localDay(Val(ev.scheduledAt), tz) = localDay(availTarget, tz)

-----------------------------------------------------------------------------
(* Claims about one generate request (Spec) *)

committed(r) == req[r].pc = "done" /\ req[r].result.status = 201

\* The Task row of plan q.run made from its k-th proposed entry / event.
llmRowId(q, k) == [plan |-> q.run, src |-> "llm", k |-> k]

\* C1: the commit is atomic: a generatePlan run that fails, the DailyPlan row
\* and entries created or not, leaves no DailyPlan row and no ScheduleEntry
\* of the run persisted and no pool item changed.
C1_CommitAtomic ==
  [][\A r \in Reqs :
       (req[r].pc \in {"llm", "plan", "tx"} /\ req'[r].result.status = 500) =>
         /\ pool' = pool
         /\ ~\E p \in plans' : p.id = req[r].run
         /\ ~\E t \in tasks' : t.dailyPlanId = req[r].run]_vars

\* A run fails after its plan row and an entry were created and a pool item
\* was noted for the usage update.
C1_Witness ==
  \E r \in Reqs :
    /\ req[r].pc = "done" /\ req[r].result.status = 500
    /\ req[r].wrote.plan /\ req[r].wrote.tasks >= 1 /\ req[r].wrote.marks >= 1

\* The available tasks and aspirations of a run, in map-filling order.
candidates(q) == Val(q.ctx).poolItems.tasks \o Val(q.ctx).poolItems.aspirations

normTitle(title) == trim(toLowerCase(title))

\* The persisted row of the k-th proposed entry of a committed run.
llmRow(q, k) == CHOOSE t \in tasks : t.id = llmRowId(q, k)
hasLlmRow(q, k) == \E t \in tasks : t.id = llmRowId(q, k)

\* C6 as stated: an entry whose normalized title equals a candidate's is
\* linked to that candidate.
C6_TitleMatchAlwaysLinks ==
  \A r \in Reqs : committed(r) =>
    \A k \in 1..Len(req[r].parsed) : hasLlmRow(req[r], k) =>
      \A c \in SeqRange(candidates(req[r])) :
        normTitle(c.title) = normTitle(Val(req[r].parsed[k].title)) =>
          llmRow(req[r], k).poolItemId = Some(c.id)

\* C6 amended: an entry that is not flagged as originated and is not dropped,
\* whose normalized title equals that of an available task or aspiration, is
\* linked to the last such candidate in tasks-then-aspirations order, and so
\* never to an item of another normalized title.
C6_TitleMatchLinksLast ==
  \A r \in Reqs : committed(r) =>
    LET q == req[r] IN
    \A k \in 1..Len(q.parsed) :
      LET same == {i \in 1..Len(candidates(q)) :
                     normTitle(candidates(q)[i].title) = normTitle(Val(q.parsed[k].title))}
      IN (hasLlmRow(q, k) /\ ~q.parsed[k].is_i_wonder /\ same # {}) =>
           /\ llmRow(q, k).poolItemId = Some(candidates(q)[Max(same)].id)
           /\ \A i \in 1..Len(candidates(q)) :
                llmRow(q, k).poolItemId = Some(candidates(q)[i].id) => i \in same

\* An entry is linked to a candidate whose title differs from its own before
\* normalization, and two candidates share that normalized title.
C6_Witness ==
  \E r \in Reqs : committed(r) /\
    \E k \in 1..Len(req[r].parsed) :
      /\ hasLlmRow(req[r], k)
      /\ \E c \in SeqRange(candidates(req[r])) :
           /\ llmRow(req[r], k).poolItemId = Some(c.id)
           /\ c.title # Val(req[r].parsed[k].title)
           /\ \E d \in SeqRange(candidates(req[r])) :
                d.id # c.id /\ normTitle(d.title) = normTitle(c.title)

\* The names of the enabled categories of the Category table.
enabledNames == {categories[i].name : i \in {j \in DOMAIN categories : categories[j].enabled}}

droppedEntries(q) == {k \in 1..Len(q.parsed) : q.parsed[k].category \notin enabledNames}

\* C7: in a committed run an entry whose category is not an enabled category
\* has no persisted row, every other entry has one, and the reported count
\* is lower by exactly the number of dropped entries.
C7_DroppedEntries ==
  \A r \in Reqs : committed(r) =>
    LET q == req[r] IN
    /\ \A k \in droppedEntries(q) : ~hasLlmRow(q, k)
    /\ \A k \in (1..Len(q.parsed)) \ droppedEntries(q) :
         hasLlmRow(q, k) /\ llmRow(q, k).title = Val(q.parsed[k].title)
    /\ q.result.taskCount =
         Len(q.parsed) + Len(q.eventsToPlace) - Cardinality(droppedEntries(q))

\* A committed run drops one entry and keeps another.
C7_Witness ==
  \E r \in Reqs : committed(r) /\
    /\ droppedEntries(req[r]) # {}
    /\ \E k \in 1..Len(req[r].parsed) : hasLlmRow(req[r], k)
    /\ enabledNames # {}

\* The text cannot be parsed as JSON.
unparsable(raw) == raw.payload.kind = "garbage" \/ (~raw.fenced /\ raw.prose)

\* The text parses to an object whose entry list is no array.
entryListAbsent(raw) ==
  ~unparsable(raw) /\ raw.payload.kind = "object" /\ raw.payload.tasks.kind # "array"

\* C8: an answer that cannot be parsed, or parses to an object without an
\* entry list, ends the run in a failure that carries the first 500
\* characters of the raw answer, and persists nothing.
C8_InvalidAnswerFails ==
  [][\A r \in Reqs :
       (/\ req[r].pc = "llm" /\ ~IsNull(req'[r].response)
        /\ \/ unparsable(Val(req'[r].response))
           \/ entryListAbsent(Val(req'[r].response))) =>
         LET raw == Val(req'[r].response) IN
         /\ req'[r].pc = "done" /\ req'[r].result.status = 500
         /\ ~IsNull(req'[r].result.excerpt)
         /\ Val(req'[r].result.excerpt).len = (IF raw.len > 500 THEN 500 ELSE raw.len)
         /\ [Val(req'[r].result.excerpt) EXCEPT !.len = raw.len] = raw
         /\ plans' = plans /\ tasks' = tasks /\ pool' = pool]_vars

\* A run failed on an object without entry list whose text is longer than
\* the excerpt.
C8_Witness ==
  \E r \in Reqs :
    /\ req[r].pc = "done" /\ req[r].result.status = 500
    /\ ~IsNull(req[r].response) /\ entryListAbsent(Val(req[r].response))
    /\ Val(req[r].response).len > 500 /\ Val(req[r].result.excerpt).len = 500

\* C9: the commit of a run for date D leaves every pool item the new plan's
\* rows link with lastUsedAt = D and a useCount one greater.
C9_ConsumedMarked ==
  [][\A r \in Reqs :
       (req[r].pc # "done" /\ req'[r].pc = "done" /\ req'[r].result.status = 201) =>
         \A i \in DOMAIN pool :
           (\E t \in tasks' \ tasks : t.poolItemId = Some(pool[i].id)) =>
             /\ \E p \in plans' \ plans : pool'[i].lastUsedAt = Some(p.date)
             /\ pool'[i].useCount = pool[i].useCount + 1]_vars

\* A committed plan links one pool item from two entries and places an event.
C9_Witness ==
  \E r \in Reqs : committed(r) /\
    /\ \E t1, t2 \in tasks :
         /\ t1.id # t2.id /\ t1.dailyPlanId = req[r].run /\ t2.dailyPlanId = req[r].run
         /\ t1.poolItemId = t2.poolItemId /\ ~IsNull(t1.poolItemId)
         /\ pool[Val(t1.poolItemId)].useCount = 1
    /\ \E t \in tasks : t.id.src = "event" /\ t.dailyPlanId = req[r].run

\* C10: in a committed run every event the resolver returned has exactly one
\* row made from it, at the event's scheduledAt, with priority 1 and linked
\* to the event.
C10_EveryEventPlaced ==
  \A r \in Reqs : committed(r) =>
    \A ev \in SeqRange(Val(req[r].ctx).poolItems.events) :
      Cardinality({t \in tasks :
                     /\ t.dailyPlanId = req[r].run
                     /\ t.poolItemId = Some(ev.id)
                     /\ t.scheduledTime = ev.scheduledAt
                     /\ t.priority = 1}) = 1

-----------------------------------------------------------------------------
(* Generate requests one after another, and two at once *)

\* Most requests one connection sends in turn.
MaxRuns == 3

\* Bodies naming a day by its date or by its noon.
FewBodies ==
  {[date |-> d, replace |-> rp] :
     d \in {DateOnly(k) : k \in Days} \cup {DateTime(k, 12) : k \in Days},
     rp \in BOOLEAN}

\* An unparsable answer, an empty plan and a plan of one entry.
FewResponses ==
  { [fenced |-> FALSE, prose |-> FALSE, payload |-> scalar("garbage"), len |-> 40],
    [fenced |-> FALSE, prose |-> FALSE, payload |-> object("array", <<>>), len |-> 60],
    [fenced |-> TRUE, prose |-> FALSE, len |-> 300,
     payload |-> object("array",
                        <<entry("Exercise", Some(<<" ", "W", "K">>), None, None, None, FALSE)>>)] }

\* Tables with enabled categories and an event of day 1.
InitFew ==
  /\ Init
  /\ categories = defaultsTable({"Exercise", "Work"})
  /\ \A i \in DOMAIN pool :
       pool[i].type = "event" =>
         IsNull(pool[i].categoryId) /\ pool[i].scheduledAt = Some(At(1, 10, 0))

\* The client sends its next request after the response to the last.
NextRequest(r) ==
  /\ runs < MaxRuns
  /\ Reset(r)

NextSeq == GenerateNext({1}, FewBodies, FewResponses) \/ NextRequest(1)

SpecSeq == InitFew /\ [][NextSeq]_vars

NextConc == GenerateNext(Reqs, FewBodies, FewResponses)

SpecConc == InitFew /\ [][NextConc]_vars

plansOfDay(date) == {p \in plans : localDay(p.date, tz) = localDay(date, tz)}

\* C4: two generate requests without replace for one date, neither seeing a
\* plan at its existence check, are not kept apart: when both commit, the
\* date has two DailyPlan rows.
C4_BothCommitTwoPlans ==
  \A r1, r2 \in Reqs :
    (/\ r1 # r2 /\ committed(r1) /\ committed(r2)
     /\ ~req[r1].replace /\ ~req[r2].replace
     /\ req[r1].forDate = req[r2].forDate) =>
      /\ {p \in plans : p.id \in {req[r1].run, req[r2].run}} \subseteq plansOfDay(req[r1].forDate)
      /\ Cardinality(plansOfDay(req[r1].forDate)) >= 2

\* Both requests passed the existence check finding nothing and both
\* committed: two plans of the date, each with its own rows.
C4_Witness ==
  \E r1, r2 \in Reqs :
    /\ r1 # r2 /\ committed(r1) /\ committed(r2)
    /\ ~req[r1].replace /\ ~req[r2].replace
    /\ IsNull(req[r1].existing) /\ IsNull(req[r2].existing)
    /\ req[r1].forDate = req[r2].forDate
    /\ \E p1, p2 \in plans :
         /\ p1.id = req[r1].run /\ p2.id = req[r2].run /\ p1.date = p2.date
         /\ \E t1, t2 \in tasks : t1.dailyPlanId = p1.id /\ t2.dailyPlanId = p2.id

\* C5: requests sent one after another leave at most one DailyPlan per
\* date, and a request without replace for a date that has a plan is
\* answered 409 with plans, entries and pool as they were.
C5_SequentialOnePlan ==
  [][/\ \A p1, p2 \in plans' :
          localDay(p1.date, tz) = localDay(p2.date, tz) => p1 = p2
     /\ \A r \in Reqs :
          (/\ req[r].pc = "idle" /\ req'[r].pc # "idle"
           /\ req'[r].result.status # 400 /\ ~req'[r].replace
           /\ plansOfDay(req'[r].forDate) # {}) =>
            /\ req'[r].pc = "done" /\ req'[r].result.status = 409
            /\ plans' = plans /\ tasks' = tasks /\ pool' = pool]_vars

\* A request was answered 409 for the plan an earlier request of the same
\* connection committed.
C5_Witness ==
  \E r \in Reqs :
    /\ req[r].pc = "done" /\ req[r].result.status = 409
    /\ \E p \in plansOfDay(req[r].forDate) : p.id >= 1 /\ p.id < req[r].run

-----------------------------------------------------------------------------
(* The scheduled time of a proposed entry *)

token(kind) == [kind |-> kind, h |-> 0, m |-> 0]
clock(h, m) == [kind |-> "hhmm", h |-> h, m |-> m]

\* The time fields a model answer may carry: none, a day part, a clock
\* time, or another word.
TimeTokens ==
  {None} \cup {Some(token(k)) : k \in {"morning", "afternoon", "evening", "other"}}
         \cup {Some(clock(7, 30)), Some(clock(23, 59)), Some(clock(0, 0))}

\* Answers of one entry of an enabled category, one per time field.
TimeResponses ==
  {[fenced |-> TRUE, prose |-> FALSE, len |-> 300,
    payload |-> object("array", <<entry("Exercise", Some(<<"r">>), tk, None, None, FALSE)>>)] :
     tk \in TimeTokens}

NextTime == GenerateNext({1}, FewBodies, TimeResponses)

SpecTime == InitFew /\ [][NextTime]_vars

\* The local calendar day and the local minute of day of an instant.
minuteOfDay(t) == (t + tz) % MinutesPerDay

\* The hour and minute a time token names.
tokenMinute(tk) ==
  CASE tk.kind = "morning" -> 9 * 60
    [] tk.kind = "afternoon" -> 14 * 60
    [] tk.kind = "evening" -> 18 * 60
    [] tk.kind = "hhmm" -> tk.h * 60 + tk.m
    [] OTHER -> 9 * 60

\* C11: in a committed plan of date D the row of an entry with a day-part or
\* clock token is scheduled on calendar date D at the token's hour and minute.
C11_ScheduledOnTargetDate ==
  \A r \in Reqs : committed(r) =>
    \A k \in 1..Len(req[r].parsed) :
      LET t == req[r].parsed[k] IN
      (/\ hasLlmRow(req[r], k) /\ ~IsNull(t.time)
       /\ Val(t.time).kind \in {"morning", "afternoon", "evening", "hhmm"}) =>
        LET st == llmRow(req[r], k).scheduledTime IN
        /\ ~IsNull(st)
        /\ minuteOfDay(Val(st)) = tokenMinute(Val(t.time))
        /\ localDay(Val(st), tz) = localDay(req[r].forDate, tz)

\* C12: in a committed plan the row of an entry whose time field is absent
\* or no known token is scheduled at 09:00 of the target date.
C12_DefaultsToMorning ==
  \A r \in Reqs : committed(r) =>
    \A k \in 1..Len(req[r].parsed) :
      LET t == req[r].parsed[k] IN
      (/\ t.category \in enabledNames
       /\ (IsNull(t.time) \/ Val(t.time).kind = "other")) =>
        /\ hasLlmRow(req[r], k)
        /\ llmRow(req[r], k).scheduledTime = Some(setHours(req[r].forDate, 9, 0, tz))

-----------------------------------------------------------------------------
(* IEEE 754 double arithmetic on the non-negative numbers of the capacity
   estimate: a number is 53 bits, lowest first, times 2^exp; ZeroF is 0. *)

Mantissa == 53

\* Bit strings are regrouped into limbs of LimbBits bits for the arithmetic.
LimbBits == 13

Pow2 == [k \in 0..30 |-> 2 ^ k]

Base == Pow2[LimbBits]

bitsOf(n) == [i \in 1..30 |-> (n \div Pow2[i - 1]) % 2]

zeros(n) == [i \in 1..n |-> 0]

\* Without its high zero bits.
RECURSIVE strip(_)
strip(b) ==
  IF b = <<>> \/ b[Len(b)] = 1 THEN b ELSE strip(SubSeq(b, 1, Len(b) - 1))

bitAt(b, i) == IF i <= Len(b) THEN b[i] ELSE 0

RECURSIVE limbValue(_, _, _)
limbValue(b, j, k) ==
  IF k = LimbBits THEN 0
  ELSE bitAt(b, LimbBits * (j - 1) + k + 1) * Pow2[k] + limbValue(b, j, k + 1)

toLimbs(b) == [j \in 1..((Len(b) + LimbBits - 1) \div LimbBits) |-> limbValue(b, j, 0)]

toBits(a) ==
  [i \in 1..(LimbBits * Len(a)) |->
     (a[(i - 1) \div LimbBits + 1] \div Pow2[(i - 1) % LimbBits]) % 2]

limbAt(a, j) == IF j <= Len(a) THEN a[j] ELSE 0

RECURSIVE addLimbs(_, _, _, _)
addLimbs(a, b, j, c) ==
  IF j > Len(a) /\ j > Len(b) THEN (IF c = 0 THEN <<>> ELSE <<c>>)
  ELSE LET s == limbAt(a, j) + limbAt(b, j) + c
       IN <<s % Base>> \o addLimbs(a, b, j + 1, s \div Base)

\* a times one limb.
RECURSIVE scaleLimbs(_, _, _, _)
scaleLimbs(a, x, j, c) ==
  IF j > Len(a) THEN (IF c = 0 THEN <<>> ELSE <<c>>)
  ELSE LET s == a[j] * x + c
       IN <<s % Base>> \o scaleLimbs(a, x, j + 1, s \div Base)

RECURSIVE mulLimbs(_, _, _)
mulLimbs(a, b, j) ==
  IF j > Len(b) THEN <<>>
  ELSE addLimbs(scaleLimbs(a, b[j], 1, 0), <<0>> \o mulLimbs(a, b, j + 1), 1, 0)

\* The sum and the product of two bit strings.
addBits(a, b) == toBits(addLimbs(toLimbs(a), toLimbs(b), 1, 0))

mulBits(a, b) == toBits(mulLimbs(toLimbs(a), toLimbs(b), 1))

\* a < b as numbers.
RECURSIVE lessLimbs(_, _, _)
lessLimbs(a, b, j) ==
  IF j = 0 THEN FALSE
  ELSE IF limbAt(a, j) # limbAt(b, j) THEN limbAt(a, j) < limbAt(b, j)
  ELSE lessLimbs(a, b, j - 1)

lessBits(a, b) ==
  lessLimbs(toLimbs(a), toLimbs(b), (Max({Len(a), Len(b)}) + LimbBits - 1) \div LimbBits)

\* Long division of limbs by a small positive integer, from the highest
\* limb down: [q |-> quotient limbs, r |-> remainder].
RECURSIVE divLimbs(_, _, _)
divLimbs(a, d, j) ==
  IF j > Len(a) THEN [q |-> <<>>, r |-> 0]
  ELSE LET hi == divLimbs(a, d, j + 1)
           x == hi.r * Base + a[j]
       IN [q |-> <<x \div d>> \o hi.q, r |-> x % d]

ZeroF == [bits |-> <<>>, exp |-> 0]

\* Round to nearest, ties to even: the double nearest to n * 2^e.
roundToDouble(n, e) ==
  LET b == strip(n)
      L == Len(b)
      drop == L - Mantissa
  IN IF L = 0 THEN ZeroF
     ELSE IF L <= Mantissa
       THEN [bits |-> zeros(Mantissa - L) \o b, exp |-> e - (Mantissa - L)]
     ELSE LET kept == SubSeq(b, drop + 1, L)
              guard == b[drop]
              sticky == \E i \in 1..(drop - 1) : b[i] = 1
              up == guard = 1 /\ (sticky \/ kept[1] = 1)
              k2 == IF up THEN strip(addBits(kept, <<1>>)) ELSE kept
          IN IF Len(k2) > Mantissa
               THEN [bits |-> SubSeq(k2, 2, Len(k2)), exp |-> e + drop + 1]
               ELSE [bits |-> k2, exp |-> e + drop]

\* Spare quotient bits of a division, enough for the rounding.
DivShift == 64

\* The double nearest to (n * 2^e) / d, for a positive integer d.
divSmall(n, e, d) ==
  LET qr == divLimbs(toLimbs(zeros(DivShift) \o n), d, 1)
  IN roundToDouble(<<(IF qr.r # 0 THEN 1 ELSE 0)>> \o toBits(qr.q), e - DivShift - 1)

\* An integer as a double, and the JavaScript quotient a / b of integers.
fromInt(a) == roundToDouble(bitsOf(a), 0)
fdivInt(a, b) == divSmall(bitsOf(a), 0, b)

\* x / d for a double x and a positive integer d.
fdivBy(x, d) == IF x.bits = <<>> THEN ZeroF ELSE divSmall(x.bits, x.exp, d)

fmul(x, y) ==
  IF x.bits = <<>> \/ y.bits = <<>> THEN ZeroF
  ELSE roundToDouble(mulBits(x.bits, y.bits), x.exp + y.exp)

\* The bits of x in units of 2^e, e <= x.exp.
inUnits(x, e) == IF x.bits = <<>> THEN <<>> ELSE zeros(x.exp - e) \o x.bits

fadd(x, y) ==
  IF x.bits = <<>> THEN y
  ELSE IF y.bits = <<>> THEN x
  ELSE LET e == IF x.exp < y.exp THEN x.exp ELSE y.exp
       IN roundToDouble(addBits(inUnits(x, e), inUnits(y, e)), e)

flt(x, y) ==
  IF y.bits = <<>> THEN FALSE
  ELSE IF x.bits = <<>> THEN TRUE
  ELSE LET e == IF x.exp < y.exp THEN x.exp ELSE y.exp
       IN lessBits(inUnits(x, e), inUnits(y, e))

fge(x, y) == ~flt(x, y)
fgt(x, y) == flt(y, x)

\* The literals 0.4, 0.3, 0.7 and 0.5.
Lit(tenths) == fdivInt(tenths, 10)

\* score = (avgEnergy / 10) * 0.4 + (avgSleep / 10) * 0.3 + completionRate * 0.3
scoreOf(avgEnergy, avgSleep, completionRate) ==
  fadd(fadd(fmul(fdivBy(avgEnergy, 10), Lit(4)), fmul(fdivBy(avgSleep, 10), Lit(3))),
       fmul(completionRate, Lit(3)))

\* capacityScore
capacityScoreOf(score) ==
  IF flt(score, Lit(4)) THEN "low"
  ELSE IF fgt(score, Lit(7)) THEN "high"
  ELSE "medium"

-----------------------------------------------------------------------------
(* The capacity estimate of gatherContext *)

\* startDate: setDate(getDate() - 7) keeps the local time of day.
WindowDays == 7

startDate(forDate) == forDate - WindowDays * MinutesPerDay

\* prisma.journalEntry.findMany({ timestamp: { gte: startDate, lt: forDate } })
capacityEntries(j, forDate) ==
  SelectSeq(j, LAMBDA e : e.timestamp >= startDate(forDate) /\ e.timestamp < forDate)

capacityTasksWide(ps, ts, forDate) ==
  {t \in ts : \E p \in ps : /\ p.id = t.dailyPlanId
                            /\ p.date >= startDate(forDate) /\ p.date <= forDate}

\* prisma.task.findMany({ dailyPlan: { date: { gte: startDate, lt: forDate } } })
capacityTasks(ps, ts, forDate) ==
  {t \in ts : \E p \in ps : /\ p.id = t.dailyPlanId
                            /\ p.date >= startDate(forDate) /\ p.date < forDate}

\* The ratings of one kind that are not null, and their sum.
ratings(entries, field) ==
  SelectSeq([i \in 1..Len(entries) |-> entries[i][field]], LAMBDA x : ~IsNull(x))

RECURSIVE sumOf(_)
sumOf(xs) == IF xs = <<>> THEN 0 ELSE Val(Head(xs)) + sumOf(Tail(xs))

\* avgEnergy, avgSleep: the mean of the ratings given, 5 without any.
average(entries, field) ==
  IF Len(ratings(entries, field)) > 0
    THEN fdivInt(sumOf(ratings(entries, field)), Len(ratings(entries, field)))
  ELSE fromInt(5)

completed(ts) == {t \in ts : t.status = "completed"}

completionRate(ts) ==
  IF Cardinality(ts) > 0 THEN fdivInt(Cardinality(completed(ts)), Cardinality(ts))
  ELSE Lit(5)

\* capacityFactors
energyLabel(avgEnergy) ==
  IF fge(avgEnergy, fromInt(7)) THEN "good"
  ELSE IF fge(avgEnergy, fromInt(4)) THEN "moderate" ELSE "low"

sleepLabel(avgSleep) ==
  IF fge(avgSleep, fromInt(7)) THEN "good"
  ELSE IF fge(avgSleep, fromInt(4)) THEN "moderate" ELSE "poor"

completionLabel(rate) ==
  IF fge(rate, Lit(7)) THEN "high"
  ELSE IF fge(rate, Lit(4)) THEN "moderate" ELSE "low"

\* The capacity part of the planning context, from the rows read.
capacityFrom(forDate, entries, ts) ==
  LET avgEnergy == average(entries, "energyLevel")
      avgSleep == average(entries, "sleepQuality")
      rate == completionRate(ts)
  IN [forDate |-> Some(forDate),
      capacityScore |-> capacityScoreOf(scoreOf(avgEnergy, avgSleep, rate)),
      energy |-> energyLabel(avgEnergy),
      sleep |-> sleepLabel(avgSleep),
      recent_completion |-> completionLabel(rate)]

\* gatherContext(forDate), its capacity part, for the date a generate
\* request names.
GatherCapacity(dateStr) ==
  LET forDate == setHours(Val(newDate(dateStr, tz)), 0, 0, tz) IN
  /\ capacity' = capacityFrom(forDate, capacityEntries(journal, forDate),
                              capacityTasks(plans, tasks, forDate))
  /\ UNCHANGED <<tz, pool, categories, plans, tasks, req, runs, availResp, feedback,
                 journal, poolResp>>

\* Most journal entries of a table.
MaxJournal == 2

\* A journal entry written at h:m local time of a day.
journalEntry(day, h, m, energy, sleep, z) ==
  [timestamp |-> At(day, h, m) - z, energyLevel |-> energy, sleepQuality |-> sleep]

\* Entries inside, at both ends of, and outside the windows of days 1 and 2.
JournalChoices(z) ==
  << journalEntry(0, 23, 59, Some(7), Some(4), z),
     journalEntry(0, 10, 0, Some(8), Some(8), z),
     journalEntry(1, 0, 0, Some(1), Some(1), z),
     journalEntry(0 - 6, 0, 0, Some(10), None, z),
     journalEntry(0 - 7, 23, 59, None, Some(9), z) >>

\* The journals of at most n entries, taken in the order of JournalChoices
\* from index from on.
RECURSIVE Journals(_, _, _)
Journals(z, n, from) ==
  IF n = 0 THEN {<<>>}
  ELSE {<<>>} \cup
       UNION {{<<JournalChoices(z)[i]>> \o rest : rest \in Journals(z, n - 1, i + 1)} :
                i \in from..Len(JournalChoices(z))}

\* A plan of a local day with its entries, done of them completed.
historyPlan(id, day, z) ==
  [id |-> id, date |-> At(day, 0, 0) - z, mentalStateSummary |-> None]

historyTasks(id, done, total) ==
  {[id |-> [plan |-> id, src |-> "llm", k |-> k], dailyPlanId |-> id, categoryId |-> 1,
    poolItemId |-> None, title |-> <<"z">>, scheduledTime |-> None, priority |-> 3,
    status |-> IF k <= done THEN "completed" ELSE "pending"] : k \in 1..total}

\* Plan histories: [day, done, total] of each plan.
Histories ==
  { <<>>, <<[day |-> 0, done |-> 0, total |-> 1]>>,
    <<[day |-> 0, done |-> 9, total |-> 10]>>,
    <<[day |-> 1, done |-> 1, total |-> 1], [day |-> 0 - 7, done |-> 1, total |-> 1],
      [day |-> 0, done |-> 0, total |-> 2]>> }

InitCapacity ==
  /\ tz \in TZOffsets
  /\ journal \in Journals(tz, MaxJournal, 1)
  /\ \E h \in Histories :
       /\ plans = {historyPlan(0 - i, h[i].day, tz) : i \in DOMAIN h}
       /\ tasks = UNION {historyTasks(0 - i, h[i].done, h[i].total) : i \in DOMAIN h}
  /\ pool = <<>>
  /\ categories = <<>>
  /\ feedback = {}
  /\ req = [r \in Reqs |-> IdleReq]
  /\ runs = 0
  /\ availResp = NoResponse
  /\ capacity = NoCapacity
  /\ poolResp = NoPoolResp

CapacityDates == {DateTime(1, 0), DateTime(2, 0), DateOnly(1)}

NextCapacity == \E s \in CapacityDates : GatherCapacity(s)

SpecCapacity == InitCapacity /\ [][NextCapacity]_vars

gathered == ~IsNull(capacity.forDate)

\* The ratings and the entries the estimate of the last context is made of.
windowEntries == capacityEntries(journal, Val(capacity.forDate))
windowTasks == capacityTasks(plans, tasks, Val(capacity.forDate))

countOr(xs, none) == IF Len(xs) > 0 THEN Len(xs) ELSE none
sumOr(xs, none) == IF Len(xs) > 0 THEN sumOf(xs) ELSE none

\* 1000 * nE * nS * T times the score 0.4*energy/10 + 0.3*sleep/10 +
\* 0.3*completionRate of the window, and that factor, in whole numbers.
scoreScale ==
  countOr(ratings(windowEntries, "energyLevel"), 1)
  * countOr(ratings(windowEntries, "sleepQuality"), 1)
  * (IF windowTasks = {} THEN 2 ELSE Cardinality(windowTasks))

scaledScore ==
  LET nE == countOr(ratings(windowEntries, "energyLevel"), 1)
      nS == countOr(ratings(windowEntries, "sleepQuality"), 1)
      sE == sumOr(ratings(windowEntries, "energyLevel"), 5)
      sS == sumOr(ratings(windowEntries, "sleepQuality"), 5)
      T == IF windowTasks = {} THEN 2 ELSE Cardinality(windowTasks)
      done == IF windowTasks = {} THEN 1 ELSE Cardinality(completed(windowTasks))
  IN 40 * sE * nS * T + 30 * sS * nE * T + 300 * done * nE * nS

\* C13: the capacity category is 'low' when the score of the window's
\* ratings is below 0.4, 'high' when it is above 0.7, else 'medium'.
C13_CategoryOfScore ==
  gathered =>
    capacity.capacityScore =
      (IF scaledScore < 400 * scoreScale THEN "low"
       ELSE IF scaledScore > 700 * scoreScale THEN "high"
       ELSE "medium")

\* A journal entry, or a plan, of one of the 7 local days before the date.
inSevenDaysBefore(t) ==
  LET d == localDay(Val(capacity.forDate), tz)
  IN localDay(t, tz) \in (d - 7)..(d - 1)

\* C14: the estimate for date D is the estimate made of the journal entries
\* and of the entries of plans dated in the 7 days before D alone.
C14_WindowOnly ==
  gathered =>
    capacity =
      capacityFrom(Val(capacity.forDate),
                   SelectSeq(journal, LAMBDA e : inSevenDaysBefore(e.timestamp)),
                   {t \in tasks : \E p \in plans :
                      p.id = t.dailyPlanId /\ inSevenDaysBefore(p.date)})

\* An estimate was made while the tables held a journal entry written on the
\* date, one written more than 7 days before, one on the first day of the
\* window, and a plan outside the window.
C14_Witness ==
  /\ gathered
  /\ \E i \in DOMAIN journal : journal[i].timestamp = Val(capacity.forDate)
  /\ \E i \in DOMAIN journal :
       journal[i].timestamp = startDate(Val(capacity.forDate))
  /\ \E p \in plans : ~inSevenDaysBefore(p.date)

-----------------------------------------------------------------------------
(* PoolService.create, update and markUsed behind the pool routes *)

\* Calls of the pool service in one behaviour.
MaxCalls == 3

\* data.cooldownDays || null: 0 is falsy.
orNull(v) == IF IsNull(v) \/ Val(v) = 0 THEN None ELSE v

\* The guard of create: only events can have scheduledAt or scheduledEnd.
createThrows(data) ==
  /\ data.type # Some("event")
  /\ ~IsNull(data.scheduledAt) \/ ~IsNull(data.scheduledEnd)

\* The data of prisma.poolItem.create.
createRow(data) ==
  [type |-> Val(data.type), title |-> <<"w">>, categoryId |-> None,
   status |-> "active", lastUsedAt |-> None, useCount |-> 0,
   cooldownDays |-> orNull(data.cooldownDays),
   scheduledAt |-> IF data.type = Some("event") THEN data.scheduledAt ELSE None,
   scheduledEnd |-> IF data.type = Some("event") THEN data.scheduledEnd ELSE None]

\* The guard of update, on the stored item's type.
updateThrows(item, data) ==
  /\ item.type # "event"
  /\ ~IsNull(data.scheduledAt) \/ ~IsNull(data.scheduledEnd)

\* A supplied field replaces the stored one.
given(field, stored) == IF IsNull(field) THEN stored ELSE Val(field)

\* updateData = { ...data }, with scheduledAt and scheduledEnd null when the
\* stored item is not an event; prisma.poolItem.update writes every field of
\* updateData, whatever the request body carried.
updateRow(item, data) ==
  [item EXCEPT
     !.type = given(data.type, @),
     !.status = given(data.status, @),
     !.cooldownDays = IF IsNull(data.cooldownDays) THEN @ ELSE data.cooldownDays,
     !.scheduledAt = IF item.type # "event" THEN None
                     ELSE IF IsNull(data.scheduledAt) THEN @ ELSE data.scheduledAt,
     !.scheduledEnd = IF item.type # "event" THEN None
                      ELSE IF IsNull(data.scheduledEnd) THEN @ ELSE data.scheduledEnd]

\* router.post('/') -> PoolService.create(req.body)
PoolCreate(data) ==
  /\ poolResp.calls < MaxCalls
  /\ IF createThrows(data)
     THEN /\ poolResp' = [op |-> "create", ok |-> FALSE, input |-> data,
                          id |-> None, calls |-> poolResp.calls + 1]
          /\ UNCHANGED <<pool, availResp>>
     ELSE /\ pool' = Append(pool, withId(createRow(data), Len(pool) + 1))
          /\ poolResp' = [op |-> "create", ok |-> TRUE, input |-> data,
                          id |-> Some(Len(pool) + 1), calls |-> poolResp.calls + 1]
          /\ availResp' = NoResponse
  /\ UNCHANGED <<tz, categories, plans, tasks, req, runs, feedback, journal, capacity>>

\* router.put('/:id') -> PoolService.update(req.params.id, req.body)
PoolUpdate(id, data) ==
  /\ poolResp.calls < MaxCalls
  /\ IF id \notin DOMAIN pool \/ updateThrows(pool[id], data)
     THEN /\ poolResp' = [op |-> "update", ok |-> FALSE, input |-> data,
                          id |-> Some(id), calls |-> poolResp.calls + 1]
          /\ UNCHANGED <<pool, availResp>>
     ELSE /\ pool' = [pool EXCEPT ![id] = updateRow(@, data)]
          /\ poolResp' = [op |-> "update", ok |-> TRUE, input |-> data,
                          id |-> Some(id), calls |-> poolResp.calls + 1]
          /\ availResp' = NoResponse
  /\ UNCHANGED <<tz, categories, plans, tasks, req, runs, feedback, journal, capacity>>

\* PoolService.markUsed(poolItemIds, usedDate): the update a plan commit
\* makes for the items it consumed.
PoolMarkUsed(ids, usedDate) ==
  /\ poolResp.calls < MaxCalls
  /\ SeqRange(ids) \subseteq DOMAIN pool
  /\ pool' = markUsed(pool, ids, usedDate)
  /\ poolResp' = [poolResp EXCEPT !.calls = @ + 1]
  /\ availResp' = NoResponse
  /\ UNCHANGED <<tz, categories, plans, tasks, req, runs, feedback, journal, capacity>>

\* Bodies of POST /api/pool.
CreateInputs ==
  {[NoInput EXCEPT !.type = Some(ty), !.cooldownDays = cd] :
     ty \in {"task", "aspiration"}, cd \in {None, Some(0), Some(2)}}
  \cup
  {[NoInput EXCEPT !.type = Some(ty), !.scheduledAt = sa, !.scheduledEnd = se] :
     ty \in {"task", "event"},
     sa \in {None, Some(At(1, 10, 0))}, se \in {None, Some(At(1, 11, 0))}}

\* Bodies of PUT /api/pool/:id; the route hands the body to update unchecked,
\* so it may carry a type.
UpdateInputs ==
  {[NoInput EXCEPT !.cooldownDays = Some(0)],
   [NoInput EXCEPT !.status = Some("paused")],
   [NoInput EXCEPT !.type = Some("task")],
   [NoInput EXCEPT !.scheduledAt = Some(At(2, 10, 0))],
   [NoInput EXCEPT !.scheduledEnd = Some(At(2, 11, 0))]}

InitPool ==
  /\ tz \in TZOffsets
  /\ pool = <<>>
  /\ categories = <<>>
  /\ plans = {}
  /\ tasks = {}
  /\ req = <<>>
  /\ runs = 0
  /\ availResp = NoResponse
  /\ feedback = {}
  /\ journal = <<>>
  /\ capacity = NoCapacity
  /\ poolResp = NoPoolResp

NextPool ==
  \/ \E data \in CreateInputs : PoolCreate(data)
  \/ \E id \in {1, Len(pool) + 1}, data \in UpdateInputs : PoolUpdate(id, data)
  \/ PoolMarkUsed(<<1>>, At(1, 0, 0))
  \/ \E d \in {1, MaxDay + 1} : PoolAvailable(DateOnly(d))

SpecPool == InitPool /\ [][NextPool]_vars

\* The item the last successful create or update call was about.
calledItem == pool[Val(poolResp.id)]

\* The cooldown the caller of the last call asked for: the override it
\* supplied, else the default of the item's type.
askedCooldown ==
  IF IsNull(poolResp.input.cooldownDays) THEN GLOBAL_COOLDOWN_DAYS[calledItem.type]
  ELSE Val(poolResp.input.cooldownDays)

\* The item is in the list of its type in the response.
returned(item) ==
  LET body == Val(availResp.body)
  IN \E l \in {body.tasks, body.aspirations, body.events} :
       \E k \in 1..Len(l) : l[k].id = item.id

\* C15: an active task or aspiration whose cooldown the caller set through
\* create (the override supplied, else the default of its type) or through
\* update (the override supplied) is returned by getAvailableForDate(D)
\* exactly when it was never used or the whole days from lastUsedAt to D are
\* at least that cooldown.
C15_AvailableIffCooldownPassed ==
  (/\ availResp.status = 200
   /\ poolResp.ok
   /\ \/ poolResp.op = "create"
      \/ poolResp.op = "update" /\ ~IsNull(poolResp.input.cooldownDays)
   /\ calledItem.type \in {"task", "aspiration"}
   /\ calledItem.status = "active")
  => (returned(calledItem)
        <=> \/ IsNull(calledItem.lastUsedAt)
            \/ (Val(availResp.date) - Val(calledItem.lastUsedAt)) \div MinutesPerDay
                 >= askedCooldown)

-----------------------------------------------------------------------------
(* Claims about the lists of the resolver *)

idsOf(l) == {l[k].id : k \in 1..Len(l)}

\* The three lists share no item, hold active items only, each in the list
\* of its type.
listsDisjointActiveTyped ==
  /\ idsOf(availBody.tasks) \cap idsOf(availBody.aspirations) = {}
  /\ idsOf(availBody.tasks) \cap idsOf(availBody.events) = {}
  /\ idsOf(availBody.aspirations) \cap idsOf(availBody.events) = {}
  /\ \A it \in SeqRange(availBody.tasks) : it.status = "active" /\ it.type = "task"
  /\ \A it \in SeqRange(availBody.aspirations) :
       it.status = "active" /\ it.type = "aspiration"
  /\ \A it \in SeqRange(availBody.events) : it.status = "active" /\ it.type = "event"
  /\ \A it \in SeqRange(availBody.tasks) \cup SeqRange(availBody.aspirations)
                 \cup SeqRange(availBody.events) :
       \E i \in DOMAIN pool : pool[i] = it

\* Every active event scheduled on the target's calendar day is in the
\* events list, whatever its lastUsedAt, useCount and cooldownDays.
eventOfTargetDayReturned ==
  \A i \in DOMAIN pool :
    (/\ pool[i].type = "event"
     /\ pool[i].status = "active"
     /\ ~IsNull(pool[i].scheduledAt)
     /\ localDay(Val(pool[i].scheduledAt), tz) = localDay(availTarget, tz))
    => pool[i].id \in idsOf(availBody.events)

-----------------------------------------------------------------------------
(* Claims about pool matching *)

\* The step that commits run r.
commits(r) ==
  req[r].pc # "done" /\ req'[r].pc = "done" /\ req'[r].result.status = 201

\* Row t of a committed run q stems from an entry flagged as originated.
fromWonderEntry(q, t) ==
  t.id.src = "llm" /\ t.dailyPlanId = q.run /\ q.parsed[t.id.k].is_i_wonder

\* C17: an entry flagged as originated (is_i_wonder) is never linked to a
\* pool item: the row made from it has no poolItemId, and a commit changes a
\* pool item only if a row of the new plan that stems from a non-originated
\* entry or from an event links it.
C17_WonderNeverLinked ==
  [][\A r \in Reqs : commits(r) =>
       /\ \A t \in tasks' \ tasks :
            fromWonderEntry(req'[r], t) => IsNull(t.poolItemId)
       /\ \A i \in DOMAIN pool :
            pool'[i] # pool[i] =>
              \E t \in tasks' \ tasks :
                t.poolItemId = Some(pool[i].id) /\ ~fromWonderEntry(req'[r], t)]_vars

\* A committed plan holds the row of an originated entry whose title
\* normalizes to a candidate's and whose pool_item_id names a candidate, and
\* that candidate is still unused.
C17_Witness ==
  \E r \in Reqs : committed(r) /\
    \E k \in 1..Len(req[r].parsed) :
      /\ req[r].parsed[k].is_i_wonder
      /\ hasLlmRow(req[r], k)
      /\ IsNull(llmRow(req[r], k).poolItemId)
      /\ \E c \in SeqRange(candidates(req[r])) :
           /\ normTitle(c.title) = normTitle(Val(req[r].parsed[k].title))
           /\ req[r].parsed[k].pool_item_id = Some(c.id)
           /\ pool[c.id].useCount = 0 /\ IsNull(pool[c.id].lastUsedAt)

\* The places in the candidate list whose normalized title is that of the
\* k-th proposed entry of run q.
sameTitle(q, k) ==
  {i \in 1..Len(candidates(q)) :
     normTitle(candidates(q)[i].title) = normTitle(Val(q.parsed[k].title))}

\* The candidates the pool_item_id of the k-th proposed entry names.
namedById(q, k) ==
  {c \in SeqRange(candidates(q)) : q.parsed[k].pool_item_id = Some(c.id)}

\* C18: matching tries the title first and the identifier second: a
\* non-originated entry whose normalized title matches a candidate is linked
\* to a candidate of that title, also when its pool_item_id names another
\* candidate; the pool_item_id decides only when no candidate title matches.
C18_TitleBeforeIdentifier ==
  \A r \in Reqs : committed(r) =>
    LET q == req[r] IN
    \A k \in 1..Len(q.parsed) :
      (hasLlmRow(q, k) /\ ~q.parsed[k].is_i_wonder) =>
        IF sameTitle(q, k) # {}
        THEN \E i \in sameTitle(q, k) :
               llmRow(q, k).poolItemId = Some(candidates(q)[i].id)
        ELSE IF namedById(q, k) # {}
        THEN \E c \in namedById(q, k) : llmRow(q, k).poolItemId = Some(c.id)
        ELSE IsNull(llmRow(q, k).poolItemId)

\* A committed entry's title matches candidate A while its pool_item_id
\* names another candidate B, and its row is linked to A.
C18_Witness ==
  \E r \in Reqs : committed(r) /\
    \E k \in 1..Len(req[r].parsed) :
      /\ hasLlmRow(req[r], k) /\ ~req[r].parsed[k].is_i_wonder
      /\ \E i \in sameTitle(req[r], k), b \in namedById(req[r], k) :
           /\ candidates(req[r])[i].id # b.id
           /\ llmRow(req[r], k).poolItemId = Some(candidates(req[r])[i].id)

-----------------------------------------------------------------------------
(* Claims about the scheduled time of pool items *)

suppliesSchedule(data) == ~IsNull(data.scheduledAt) \/ ~IsNull(data.scheduledEnd)

\* No item of table p other than an event carries a scheduled time.
onlyEventsScheduled(p) ==
  \A i \in DOMAIN p :
    p[i].type # "event" => IsNull(p[i].scheduledAt) /\ IsNull(p[i].scheduledEnd)

\* C19: after every create, update and commit no pool item other than an
\* event has a scheduledAt or a scheduledEnd, and a create or update that
\* supplies a scheduled time for a non-event item fails and stores nothing.
C19_OnlyEventsScheduled ==
  [][/\ onlyEventsScheduled(pool')
     /\ \A data \in CreateInputs :
          (PoolCreate(data) /\ data.type # Some("event") /\ suppliesSchedule(data))
            => ~poolResp'.ok /\ pool' = pool
     /\ \A id \in DOMAIN pool : \A data \in UpdateInputs :
          (PoolUpdate(id, data) /\ pool[id].type # "event" /\ suppliesSchedule(data))
            => ~poolResp'.ok /\ pool' = pool]_vars

-----------------------------------------------------------------------------
(* Claims about replacing a plan *)

-----------------------------------------------------------------------------
(* Claims about the frame of a generate request *)

\* The persisted tables.
tables == <<plans, tasks, categories, pool, feedback>>

\* C21: a generate request whose date is missing or does not parse to a
\* valid date is answered at once with an input error (400) and writes
\* nothing: plans, entries, categories, pool items and feedback stay as
\* they were.
C21_BadDateRejected ==
  [][\A r \in Reqs : \A b \in Bodies :
       (GenerateCheck(r, b) /\ b.date.kind \in {"missing", "invalid"}) =>
         /\ req'[r].pc = "done"
         /\ req'[r].result.status = 400
         /\ IsNull(req'[r].result.planId)
         /\ tables' = tables]_vars

\* A request with an unparsable date was rejected while the tables held an
\* earlier plan with its entry.
C21_Witness ==
  \E r \in Reqs :
    /\ req[r].pc = "done" /\ req[r].result.status = 400
    /\ req[r].result.error = "Invalid date"
    /\ plans = {earlierPlan(tz)} /\ tasks = {earlierTask(tz)}

\* The order of the steps of a generatePlan run: aggregate ("gather"), model
\* call and validation ("llm"), the writes of the transaction ("plan", "tx"),
\* the end ("done").
stepOrder == [gather |-> 1, llm |-> 2, plan |-> 3, tx |-> 4, done |-> 5]

inGeneratePlan(q) == q.pc \in {"gather", "llm", "plan", "tx"}

\* Nothing written in the transaction of q yet.
nothingWritten(q) == IsNull(q.txPlan) /\ q.txTasks = <<>> /\ ~q.txMarked

\* C22: a generatePlan run goes through aggregate, model call, validate,
\* commit in that order; up to the validation of the model response it has
\* written nothing, not even inside its transaction, and the only step of
\* the run that changes persisted state is its commit: aggregation (with
\* pool availability resolution) and the model call leave every table as it
\* was.
C22_OnlyCommitWrites ==
  [][\A r \in Reqs :
       (inGeneratePlan(req[r]) /\ req'[r] # req[r]) =>
         /\ stepOrder[req'[r].pc] >= stepOrder[req[r].pc]
         /\ req[r].pc = "gather" => req'[r].pc = "llm"
         /\ req[r].pc \in {"gather", "llm"} =>
              nothingWritten(req'[r]) /\ tables' = tables
         /\ req'[r].pc \in {"plan", "tx"} =>
              /\ ~IsNull(req'[r].response)
              /\ isValidPlan(parseLLMResponse(Val(req'[r].response)))
         /\ tables' # tables => commits(r)]_vars

\* A run has written its plan, an entry and the pool update inside its
\* transaction, and the tables hold nothing of it yet.
C22_Witness ==
  \E r \in Reqs :
    /\ req[r].pc = "tx" /\ req[r].txMarked /\ req[r].txTasks # <<>>
    /\ ~\E p \in plans : p.id = req[r].run
    /\ ~\E t \in tasks : t.dailyPlanId = req[r].run
    /\ \A i \in DOMAIN pool : pool[i].useCount = 0

-----------------------------------------------------------------------------
(* One generate request whose transaction keeps running *)

\* A step of the transaction callback of request r.
TxStep(r) ==
  \/ CreatePlan(r)
  \/ CreateTask(r)
  \/ PlaceEvent(r)
  \/ UpdatePool(r)
  \/ Commit(r)

NextLive == GenerateNext({1}, FewBodies, FewResponses)

\* Every await of the transaction callback settles: while the callback can
\* take a step it takes one (or the transaction fails).
SpecLive == InitFew /\ [][NextLive]_vars /\ WF_vars(TxStep(1))

\* The model call of run r has returned.
modelReturned(r) ==
  \/ req[r].pc \in {"plan", "tx"}
  \/ req[r].pc = "done" /\ ~IsNull(req[r].response)

\* Terminal outcome committed: the plan, its entries and the pool
\* bookkeeping of run r are all persisted.
committedOutcome(r) ==
  /\ req[r].pc = "done" /\ req[r].result.status = 201
  /\ \E p \in plans : p.id = req[r].run /\ p.date = req[r].forDate
  /\ \A i \in DOMAIN pool :
       IF \E t \in tasks : t.dailyPlanId = req[r].run /\ t.poolItemId = Some(pool[i].id)
       THEN pool[i].lastUsedAt = Some(req[r].forDate) /\ pool[i].useCount = 1
       ELSE IsNull(pool[i].lastUsedAt) /\ pool[i].useCount = 0

\* Terminal outcome aborted: nothing of run r is persisted.
abortedOutcome(r) ==
  /\ req[r].pc = "done" /\ req[r].result.status = 500
  /\ ~\E p \in plans : p.id = req[r].run
  /\ ~\E t \in tasks : t.dailyPlanId = req[r].run
  /\ \A i \in DOMAIN pool : IsNull(pool[i].lastUsedAt) /\ pool[i].useCount = 0

\* C23: every generatePlan run whose model call returns eventually ends, and
\* ends in exactly one of two outcomes: committed (plan, entries and pool
\* bookkeeping persisted together) or aborted (nothing of the run persisted).
C23_CommittedOrAborted ==
  \A r \in {1} :
    /\ modelReturned(r) ~> (committedOutcome(r) \/ abortedOutcome(r))
    /\ [](req[r].pc = "done" /\ req[r].result.status \in {201, 500}
            => (committedOutcome(r) /\ ~abortedOutcome(r))
                 \/ (abortedOutcome(r) /\ ~committedOutcome(r)))

\* A run committed a plan with an entry linked to a pool item, now marked.
C23_Witness ==
  /\ committedOutcome(1)
  /\ \E t \in tasks : t.dailyPlanId = req[1].run /\ ~IsNull(t.poolItemId)
                        /\ t.id.src = "llm"

\* Pool item i is linked by a row the step persists.
consumed(i) == \E t \in tasks' \ tasks : t.poolItemId = Some(pool[i].id)

\* C24: a plan commit changes a pool item in lastUsedAt and useCount only,
\* and only an item a row of the new plan links; status, type, title,
\* category, cooldown override and scheduled time of every item stay, items
\* not consumed stay entirely, and no item is deleted.  No other step of a
\* generate request changes the pool.
C24_CommitTouchesUsageOnly ==
  [][/\ DOMAIN pool' = DOMAIN pool
     /\ \A i \in DOMAIN pool :
          /\ [pool'[i] EXCEPT !.lastUsedAt = pool[i].lastUsedAt,
                              !.useCount = pool[i].useCount] = pool[i]
          /\ pool'[i] # pool[i] => consumed(i) /\ \E r \in Reqs : commits(r)]_vars

\* A commit marked one pool item and left another as it was.
C24_Witness ==
  \E r \in Reqs : committed(r) /\
    \E i, j \in DOMAIN pool :
      /\ pool[i].useCount = 1 /\ pool[i].lastUsedAt = Some(req[r].forDate)
      /\ pool[j].useCount = 0 /\ IsNull(pool[j].lastUsedAt)
      /\ pool[i].type # "event" /\ pool[j].type # "event"

-----------------------------------------------------------------------------
(* Claims about the cooldown across plans *)

planOf(t) == CHOOSE p \in plans : p.id = t.dailyPlanId

\* The minutes between the target dates of two plans.
apart(p1, p2) == IF p1.date >= p2.date THEN p1.date - p2.date ELSE p2.date - p1.date

\* C25: over any interleaving of generate requests, overlapping ones
\* included, two committed plans that link the same task or aspiration have
\* target dates at least the item's effective cooldown (its override, else
\* 1 day for a task and 3 for an aspiration) apart.
C25_CooldownAcrossPlans ==
  \A t1, t2 \in tasks :
    (/\ t1.dailyPlanId # t2.dailyPlanId
     /\ ~IsNull(t1.poolItemId) /\ t1.poolItemId = t2.poolItemId
     /\ pool[Val(t1.poolItemId)].type \in {"task", "aspiration"}) =>
      apart(planOf(t1), planOf(t2))
        >= effectiveCooldown(pool[Val(t1.poolItemId)]) * MinutesPerDay

-----------------------------------------------------------------------------
(* Claims about the result of a committed run *)

\* The persisted rows of the plan of run q.
rowsOfPlan(q) == {t \in tasks : t.dailyPlanId = q.run}

\* C26: the taskCount a committed run returns is the number of ScheduleEntry
\* rows persisted for its plan, rows of proposed entries and of auto-placed
\* events together, whatever the enabled categories, the proposed entries
\* and the available events (events without a category included).
C26_TaskCountIsRowCount ==
  \A r \in Reqs : committed(r) =>
    req[r].result.taskCount = Cardinality(rowsOfPlan(req[r]))

-----------------------------------------------------------------------------
(* Claims about a replace whose generation fails *)

\* The generation of run r fails in this step: the model call fails, the
\* response is invalid, or the transaction fails.
generationFails(r) ==
  /\ req[r].pc \in {"llm", "plan", "tx"}
  /\ req'[r].pc = "done" /\ req'[r].result.status = 500

-----------------------------------------------------------------------------
(* One generate request over a pool with items that are not available *)

\* An available task, a paused task, an aspiration in cooldown, a completed
\* task and an event.
LinkPool ==
  << withId(newItem("task", <<"a">>, None, None), 1),
     withId([newItem("task", <<"p">>, None, None) EXCEPT !.status = "paused"], 2),
     withId([newItem("aspiration", <<"c">>, None, None)
               EXCEPT !.lastUsedAt = Some(At(1, 0, 0)), !.useCount = 1], 3),
     withId([newItem("task", <<"d">>, None, None) EXCEPT !.status = "completed"], 4),
     withId(newItem("event", <<"e">>, None, Some(At(1, 10, 0))), 5) >>

\* Answers of one entry: any title of the pool or another, with any
\* pool_item_id of the pool, an unknown one or none.
LinkResponses ==
  {[fenced |-> FALSE, prose |-> FALSE, len |-> 80,
    payload |-> object("array", <<entry("Work", Some(ti), None, None, pid, FALSE)>>)] :
     ti \in {<<"a">>, <<"p">>, <<"c">>, <<"d">>, <<"e">>, <<"x">>},
     pid \in {None} \cup {Some(i) : i \in 1..(Len(LinkPool) + 1)}}

InitLink ==
  /\ tz \in TZOffsets
  /\ categories = defaultsTable({"Exercise", "Work"})
  /\ pool = LinkPool
  /\ plans = {earlierPlan(tz)}
  /\ tasks = {earlierTask(tz)}
  /\ feedback = {earlierFeedback}
  /\ req = [r \in Reqs |-> IdleReq]
  /\ runs = 0
  /\ availResp = NoResponse
  /\ journal = <<>>
  /\ capacity = NoCapacity
  /\ poolResp = NoPoolResp

NextLink == GenerateNext({1}, FewBodies, LinkResponses)

SpecLink == InitLink /\ [][NextLink]_vars

\* Item c, as the run read it, was available for the run's date: an active
\* task or aspiration never used or used at least its cooldown ago.
wasAvailable(c, q) ==
  /\ c.type \in {"task", "aspiration"}
  /\ c.status = "active"
  /\ \/ IsNull(c.lastUsedAt)
     \/ (q.forDate - Val(c.lastUsedAt)) \div MinutesPerDay
          >= (IF IsNull(c.cooldownDays) THEN (IF c.type = "task" THEN 1 ELSE 3)
              ELSE Val(c.cooldownDays))

\* C28: in a committed plan the poolItemId of a row made from a proposed
\* entry is empty or names a task or aspiration the resolver returned as
\* available for the target date; a pool_item_id (or title) of an event, of
\* a paused or completed item, of an item in cooldown or of no item gives no
\* link, so an event is linked only by its own auto-placed row.
C28_LinksOnlyAvailable ==
  \A r \in Reqs : committed(r) =>
    \A t \in rowsOfPlan(req[r]) :
      /\ (t.id.src = "llm" /\ ~IsNull(t.poolItemId)) =>
           \E c \in SeqRange(candidates(req[r])) :
             /\ c.id = Val(t.poolItemId)
             /\ wasAvailable(c, req[r])
             /\ \E i \in DOMAIN LinkPool : LinkPool[i] = c
      /\ (~IsNull(t.poolItemId) /\ pool[Val(t.poolItemId)].type = "event") =>
           t.id.src = "event"

\* A committed plan holds the row of an entry whose pool_item_id names the
\* event, not linked, beside the event's own row.
C28_Witness ==
  \E r \in Reqs : committed(r) /\
    /\ \E k \in 1..Len(req[r].parsed) :
         /\ req[r].parsed[k].pool_item_id = Some(5)
         /\ hasLlmRow(req[r], k) /\ IsNull(llmRow(req[r], k).poolItemId)
    /\ \E t \in rowsOfPlan(req[r]) : t.id.src = "event" /\ t.poolItemId = Some(5)

-----------------------------------------------------------------------------
(* Claims about entries that share a pool item *)

\* The rows the step persists that stem from proposed entries and link pool
\* item i.
entryRowsLinking(i) ==
  {t \in tasks' \ tasks : t.id.src = "llm" /\ t.poolItemId = Some(pool[i].id)}

\* The proposed entries of run q that are kept, not originated, and titled
\* like a candidate.
matchedEntries(q) ==
  {k \in 1..Len(q.parsed) :
     /\ q.parsed[k].category \in enabledNames
     /\ ~q.parsed[k].is_i_wonder
     /\ sameTitle(q, k) # {}}

\* C29: when several proposed entries of one commit match the same pool
\* item, each of them gets a row linked to that item, and the item's
\* useCount grows by exactly 1 in that commit.
C29_SharedItemCountedOnce ==
  [][\A r \in Reqs : commits(r) =>
       /\ \A k1, k2 \in matchedEntries(req[r]) :
            normTitle(Val(req[r].parsed[k1].title))
              = normTitle(Val(req[r].parsed[k2].title)) =>
              \E t1, t2 \in tasks' \ tasks :
                /\ t1.id = llmRowId(req[r], k1) /\ t2.id = llmRowId(req[r], k2)
                /\ ~IsNull(t1.poolItemId) /\ t1.poolItemId = t2.poolItemId
       /\ \A i \in DOMAIN pool :
            Cardinality(entryRowsLinking(i)) >= 2 =>
              pool'[i].useCount = pool[i].useCount + 1]_vars

\* Two rows of one committed plan, made from two proposed entries, link the
\* same pool item, whose useCount is 1.
C29_Witness ==
  \E r \in Reqs : committed(r) /\
    \E t1, t2 \in rowsOfPlan(req[r]) :
      /\ t1.id.src = "llm" /\ t2.id.src = "llm" /\ t1.id # t2.id
      /\ ~IsNull(t1.poolItemId) /\ t1.poolItemId = t2.poolItemId
      /\ pool[Val(t1.poolItemId)].useCount = 1
      /\ pool[Val(t1.poolItemId)].lastUsedAt = Some(req[r].forDate)

(***************************************************************************)
(* Claims about an answer with an empty entry list                         *)
(***************************************************************************)

\* The raw answer parses to an object whose entry list is an empty array.
emptyList(raw) ==
  /\ ~unparsable(raw)
  /\ raw.payload.kind = "object"
  /\ raw.payload.tasks.kind = "array"
  /\ raw.payload.tasks.items = <<>>

\* The run holds a validated answer with no entries.
emptyRun(q) ==
  /\ ~IsNull(q.response) /\ emptyList(Val(q.response))
  /\ q.parsed = <<>>

\* C30: a parsed answer whose entry list is present and empty is not a
\* generation failure: it passes validation, and its commit answers 201 with
\* a plan whose rows are only the auto-placed events (possibly none).
C30_EmptyListAccepted ==
  [][\A r \in Reqs :
       /\ (req[r].pc = "llm" /\ ~IsNull(req'[r].response)
             /\ emptyList(Val(req'[r].response))) =>
            /\ req'[r].pc = "plan"
            /\ req'[r].parsed = <<>>
            /\ IsNull(req'[r].result.excerpt)
       /\ (commits(r) /\ emptyRun(req[r])) =>
            /\ \E p \in plans' \ plans : p.id = req[r].run
            /\ \A t \in tasks' \ tasks :
                 t.id.plan = req[r].run /\ t.id.src = "event"]_vars

\* A run whose answer had an empty entry list has committed, and its plan
\* holds exactly one row, made from a pool event.
C30_Witness ==
  \E r \in Reqs :
    /\ committed(r) /\ emptyRun(req[r])
    /\ \E p \in plans : p.id = req[r].run
    /\ Cardinality(rowsOfPlan(req[r])) = 1
    /\ \A t \in rowsOfPlan(req[r]) : t.id.src = "event"

====
